---- MODULE Spec2Model ----
(***************************************************************************)
(* A model of the CSV preprocessing engine of workbench-preprocessor:      *)
(* cell normalisation and text sanitisation, the built-in column           *)
(* modifiers, the streaming row loop of                                    *)
(* CsvModifier::process_csv_reader (src/src/csv_modifier.rs), and the      *)
(* grouping pass of ItemCsvGenerator::generate                             *)
(* (src/src/item_csv_generator.rs).                                        *)
(*                                                                         *)
(* A character is its Unicode code point, a cell (a Rust String) is a      *)
(* sequence of code points, a row is a sequence of cells.                  *)
(***************************************************************************)
EXTENDS Integers, Sequences, FiniteSets, TLC

VARIABLES
    pc,                         \* which run this is and how far it has got
    headers,                    \* process_csv_reader: headers
    written_headers,            \* the header record handed to writer.write_record
    column_modifiers,           \* CsvModifier.column_modifiers: column name -> modifier
    stats,                      \* process_csv_reader: stats (ProcessingStats)
    validation_logging_suppressed,
    seen_access_identifiers,
    output,                     \* the data rows handed to writer.write_record, in order
    rows_read,                  \* number of records taken from reader.records()
    logs,                       \* warn! calls made so far: detailed diagnostics and notices
    last,                       \* what the latest loop iteration did to its row
    txt,                        \* a pure text function applied to an input cell
    node,                       \* ItemCsvGenerator::generate: node
    parent_data,                \* generate: parent_data, parent key -> GroupData
    item_stats,                 \* generate: stats (ItemGenerationStats)
    items,                      \* the records generate has taken from its reader, in order
    items_file_created          \* generate has called File::create(output_path)

vars == <<pc, headers, written_headers, column_modifiers, stats, validation_logging_suppressed,
          seen_access_identifiers, output, rows_read, logs, last, txt,
          node, parent_data, item_stats, items, items_file_created>>

(***************************************************************************)
(* Bounds of the model.                                                    *)
(***************************************************************************)
MaxRows == 3
MaxTextLen == 4
MaxDescLen == 3
MaxLogRows == 28
MaxItems == 3
MaxDates == 3

(***************************************************************************)
(* Characters, named by their code points.                                 *)
(***************************************************************************)
NBSP == 160
QUOTE == 34
SEMICOLON == 59
BACKSLASH == 92
HASH == 35
UNDERSCORE == 95
DOT == 46
SLASH == 47

\* char::is_whitespace (the Unicode White_Space property), used by str::trim
IsWhitespace(c) ==
    \/ c \in 9..13
    \/ c \in {32, 133, 160, 5760, 8232, 8233, 8239, 8287, 12288}
    \/ c \in 8192..8202

RECURSIVE TrimStart(_)
TrimStart(s) ==
    IF s = <<>> THEN <<>>
    ELSE IF IsWhitespace(Head(s)) THEN TrimStart(Tail(s)) ELSE s

RECURSIVE TrimEnd(_)
TrimEnd(s) ==
    IF s = <<>> THEN <<>>
    ELSE IF IsWhitespace(s[Len(s)]) THEN TrimEnd(SubSeq(s, 1, Len(s) - 1)) ELSE s

Trim(s) == TrimEnd(TrimStart(s))

ToAsciiLowercase(c) == IF c \in 65..90 THEN c + 32 ELSE c

EqIgnoreAsciiCase(a, b) ==
    /\ Len(a) = Len(b)
    /\ \A i \in 1..Len(a) : ToAsciiLowercase(a[i]) = ToAsciiLowercase(b[i])

StartsWith(s, p) == Len(s) >= Len(p) /\ SubSeq(s, 1, Len(p)) = p

EndsWith(s, p) == Len(s) >= Len(p) /\ SubSeq(s, Len(s) - Len(p) + 1, Len(s)) = p

\* str::rfind(char): the last position of c in s, 0 when there is none
RFind(s, c) ==
    LET hits == {i \in 1..Len(s) : s[i] = c}
    IN  IF hits = {} THEN 0 ELSE CHOOSE i \in hits : \A j \in hits : j <= i

\* the literal "#value!"
VALUE_PLACEHOLDER == <<35, 118, 97, 108, 117, 101, 33>>

normalize_cell(value) ==
    LET trimmed == Trim(value)
    IN  IF EqIgnoreAsciiCase(trimmed, VALUE_PLACEHOLDER)
        THEN <<>>
        ELSE trimmed

is_effectively_empty(value) == normalize_cell(value) = <<>>

(***************************************************************************)
(* Text sanitisation: NBSP replacement and the mojibake repair.            *)
(***************************************************************************)
MojibakeMarkers == {195, 226, 8364, 8482, 339, 162, 8240, 352, 382, 194}

contains_mojibake_markers(value) == \E i \in 1..Len(value) : value[i] \in MojibakeMarkers

\* encoding_rs WINDOWS_1252.encode of one code point: its byte, or -1 when
\* the code point is unmappable (had_errors)
Windows1252Byte(c) ==
    IF c \in 0..127 \/ c \in 160..255 THEN c
    ELSE CASE c = 8364 -> 128 [] c = 129 -> 129  [] c = 8218 -> 130 [] c = 402 -> 131
           [] c = 8222 -> 132 [] c = 8230 -> 133 [] c = 8224 -> 134 [] c = 8225 -> 135
           [] c = 710 -> 136  [] c = 8240 -> 137 [] c = 352 -> 138  [] c = 8249 -> 139
           [] c = 338 -> 140  [] c = 141 -> 141  [] c = 381 -> 142  [] c = 143 -> 143
           [] c = 144 -> 144  [] c = 8216 -> 145 [] c = 8217 -> 146 [] c = 8220 -> 147
           [] c = 8221 -> 148 [] c = 8226 -> 149 [] c = 8211 -> 150 [] c = 8212 -> 151
           [] c = 732 -> 152  [] c = 8482 -> 153 [] c = 353 -> 154  [] c = 8250 -> 155
           [] c = 339 -> 156  [] c = 157 -> 157  [] c = 382 -> 158  [] c = 376 -> 159
           [] OTHER -> -1

Windows1252Encode(value) == [i \in 1..Len(value) |-> Windows1252Byte(value[i])]

IsContinuation(b) == b \in 128..191

\* the first UTF-8 sequence of a non-empty byte string: its length in bytes
\* and its code point; len = 0 when the bytes do not start a well-formed sequence
Utf8First(bytes) ==
    LET b1 == bytes[1]
        n  == Len(bytes)
    IN  IF b1 \in 0..127 THEN [len |-> 1, cp |-> b1]
        ELSE IF b1 \in 194..223 /\ n >= 2 /\ IsContinuation(bytes[2])
             THEN [len |-> 2, cp |-> (b1 - 192) * 64 + (bytes[2] - 128)]
        ELSE IF /\ b1 \in 224..239
                /\ n >= 3
                /\ IsContinuation(bytes[2])
                /\ IsContinuation(bytes[3])
                /\ (b1 = 224 => bytes[2] >= 160)
                /\ (b1 = 237 => bytes[2] <= 159)
             THEN [len |-> 3,
                   cp |-> (b1 - 224) * 4096 + (bytes[2] - 128) * 64 + (bytes[3] - 128)]
        ELSE IF /\ b1 \in 240..244
                /\ n >= 4
                /\ IsContinuation(bytes[2])
                /\ IsContinuation(bytes[3])
                /\ IsContinuation(bytes[4])
                /\ (b1 = 240 => bytes[2] >= 144)
                /\ (b1 = 244 => bytes[2] <= 143)
             THEN [len |-> 4,
                   cp |-> (b1 - 240) * 262144 + (bytes[2] - 128) * 4096
                          + (bytes[3] - 128) * 64 + (bytes[4] - 128)]
        ELSE [len |-> 0, cp |-> 0]

\* String::from_utf8: the code points of a well-formed UTF-8 byte sequence;
\* <<-1>> stands for Err (the bytes are not valid UTF-8)
RECURSIVE Utf8Decode(_)
Utf8Decode(bytes) ==
    IF bytes = <<>> THEN <<>>
    ELSE LET first == Utf8First(bytes)
         IN  IF first.len = 0 THEN <<-1>>
             ELSE LET rest == Utf8Decode(SubSeq(bytes, first.len + 1, Len(bytes)))
                  IN  IF rest = <<-1>> THEN <<-1>> ELSE <<first.cp>> \o rest

None == [some |-> FALSE, value |-> <<>>]
Some(v) == [some |-> TRUE, value |-> v]

fix_common_mojibake(value) ==
    IF ~contains_mojibake_markers(value) THEN None
    ELSE
      LET encoded == Windows1252Encode(value)
      IN  IF \E i \in 1..Len(encoded) : encoded[i] = -1 THEN None
          ELSE LET decoded == Utf8Decode(encoded)
               IN  IF decoded # <<-1>> /\ decoded # value THEN Some(decoded) ELSE None

ReplaceChar(s, from, to) == [i \in 1..Len(s) |-> IF s[i] = from THEN to ELSE s[i]]

\* sanitize_text_in_place: the new value of the cell and the returned flag
sanitize_text_in_place(value) ==
    LET hasNbsp == \E i \in 1..Len(value) : value[i] = NBSP
        v1      == IF hasNbsp THEN ReplaceChar(value, NBSP, 32) ELSE value
        fixed   == fix_common_mojibake(v1)
        repair  == fixed.some /\ fixed.value # v1
    IN  [value   |-> IF repair THEN fixed.value ELSE v1,
         changed |-> hasNbsp \/ repair]

(***************************************************************************)
(* ensure_wrapped_in_quotes and the field_description escaper.             *)
(***************************************************************************)
RECURSIVE DoubleQuotes(_)
DoubleQuotes(s) ==
    IF s = <<>> THEN <<>>
    ELSE IF Head(s) = QUOTE
         THEN <<QUOTE, QUOTE>> \o DoubleQuotes(Tail(s))
         ELSE <<Head(s)>> \o DoubleQuotes(Tail(s))

\* ensure_wrapped_in_quotes: the new value of the cell and the returned flag
ensure_wrapped_in_quotes(value) ==
    IF value = <<>> THEN [value |-> <<QUOTE, QUOTE>>, changed |-> TRUE]
    ELSE IF value[1] = QUOTE /\ value[Len(value)] = QUOTE
         THEN [value |-> value, changed |-> FALSE]
         ELSE [value |-> <<QUOTE>> \o DoubleQuotes(value) \o <<QUOTE>>, changed |-> TRUE]

\* the loop of FieldDescriptionSemicolonEscaper::modify; previous = 0 is None
RECURSIVE EscapeSemicolons(_, _)
EscapeSemicolons(s, previous) ==
    IF s = <<>> THEN <<>>
    ELSE LET ch == Head(s)
         IN  (IF ch = SEMICOLON /\ previous # BACKSLASH THEN <<BACKSLASH, ch>> ELSE <<ch>>)
             \o EscapeSemicolons(Tail(s), ch)

FieldDescriptionSemicolonEscaper_modify(value) ==
    IF value = <<>> THEN <<>> ELSE EscapeSemicolons(value, 0)

(***************************************************************************)
(* RowContext: a read-only view of one row, keyed by header name.          *)
(***************************************************************************)
RowContext_new(hdrs, values) == [headers |-> hdrs, values |-> values]

\* RowContext::get: the first header equal to column, then the cell at that index
RowContext_get(row, column) ==
    LET hits == {i \in 1..Len(row.headers) : row.headers[i] = column}
    IN  IF hits = {} THEN None
        ELSE LET i == CHOOSE k \in hits : \A j \in hits : k <= j
             IN  IF i <= Len(row.values) THEN Some(row.values[i]) ELSE None

RowContext_get_or_empty(row, column) ==
    LET got == RowContext_get(row, column)
    IN  IF got.some THEN normalize_cell(got.value) ELSE <<>>

RECURSIVE RowContext_get_first_non_empty(_, _)
RowContext_get_first_non_empty(row, columns) ==
    IF columns = <<>> THEN None
    ELSE LET got == RowContext_get(row, Head(columns))
         IN  IF got.some /\ normalize_cell(got.value) # <<>>
             THEN Some(normalize_cell(got.value))
             ELSE RowContext_get_first_non_empty(row, Tail(columns))

(***************************************************************************)
(* The built-in column modifiers.                                          *)
(***************************************************************************)
\* the literals "_00" and "_000"
SUFFIX_00 == <<95, 48, 48>>
SUFFIX_000 == <<95, 48, 48, 48>>

AccessIdentifierValidator_modify(value, row) == normalize_cell(value)

\* AccessIdentifierValidator_validate with the test for the _000 suffix lost
AccessIdentifierValidator_validate_Only00(value, row) ==
    LET clean == normalize_cell(value)
    IN  IF clean = <<>> THEN FALSE
        ELSE ~EndsWith(clean, SUFFIX_00)

AccessIdentifierValidator_validate(value, row) ==
    LET clean == normalize_cell(value)
    IN  IF clean = <<>> THEN FALSE
        ELSE ~(EndsWith(clean, SUFFIX_00) \/ EndsWith(clean, SUFFIX_000))

\* the access identifier cut before its last underscore
ParentOf(access_identifier) ==
    LET last_underscore == RFind(access_identifier, UNDERSCORE)
    IN  IF last_underscore # 0
        THEN SubSeq(access_identifier, 1, last_underscore - 1)
        ELSE access_identifier

\* ParentIdModifier_modify keeping a parent_id the cell already holds
ParentIdModifier_modify_KeepCell(value, row) ==
    LET access_identifier == RowContext_get_or_empty(row, "accessIdentifier")
    IN  IF normalize_cell(value) # <<>> THEN normalize_cell(value)
        ELSE IF access_identifier # <<>> THEN ParentOf(access_identifier) ELSE <<>>

ParentIdModifier_modify(value, row) ==
    LET access_identifier == RowContext_get_or_empty(row, "accessIdentifier")
    IN  IF access_identifier # <<>> THEN ParentOf(access_identifier) ELSE <<>>

ParentIdModifier_validate(value, row) ==
    RowContext_get_or_empty(row, "accessIdentifier") # <<>>

\* FileExtensionModifier_modify with the old extension of the cell kept
FileExtensionModifier_modify_KeepOldExtension(value, row) ==
    LET ext == RowContext_get_first_non_empty(row, <<"file_extension", "file_extention">>)
        file_extension == IF ext.some THEN ext.value ELSE <<>>
        access_identifier == RowContext_get_or_empty(row, "accessIdentifier")
        value_clean == normalize_cell(value)
    IN  IF file_extension = <<>> \/ value_clean = <<>> \/ access_identifier = <<>>
        THEN value_clean
        ELSE ParentOf(access_identifier) \o <<SLASH>> \o value_clean \o <<DOT>> \o file_extension

FileExtensionModifier_modify(value, row) ==
    LET ext == RowContext_get_first_non_empty(row, <<"file_extension", "file_extention">>)
        file_extension == IF ext.some THEN ext.value ELSE <<>>
        access_identifier == RowContext_get_or_empty(row, "accessIdentifier")
        value_clean == normalize_cell(value)
        dot_pos == RFind(value_clean, DOT)
        base_name == IF dot_pos # 0 THEN SubSeq(value_clean, 1, dot_pos - 1) ELSE value_clean
    IN  IF file_extension = <<>> \/ value_clean = <<>> \/ access_identifier = <<>>
        THEN value_clean
        ELSE ParentOf(access_identifier) \o <<SLASH>> \o base_name \o <<DOT>> \o file_extension

FileExtensionModifier_validate(value, row) ==
    LET has_value == normalize_cell(value) # <<>>
        has_extension ==
            RowContext_get_first_non_empty(row, <<"file_extension", "file_extention">>).some
        has_access_identifier == RowContext_get_or_empty(row, "accessIdentifier") # <<>>
    IN  has_value /\ has_extension /\ has_access_identifier

\* normalize_extension: trimmed, leading dots dropped, ASCII lower case
RECURSIVE TrimStartDots(_)
TrimStartDots(s) ==
    IF s = <<>> THEN <<>>
    ELSE IF Head(s) = DOT THEN TrimStartDots(Tail(s)) ELSE s

normalize_extension(value) ==
    LET stripped == TrimStartDots(Trim(value))
    IN  [i \in 1..Len(stripped) |-> ToAsciiLowercase(stripped[i])]

\* the default model "Binary"
default_model == <<66, 105, 110, 97, 114, 121>>

\* self.mappings.get(key) for the default configuration: "jpg" is "Image" and
\* "mp3" is "Audio"
mappings_get(key) ==
    CASE key = <<106, 112, 103>> -> Some(<<73, 109, 97, 103, 101>>)
      [] key = <<109, 112, 51>> -> Some(<<65, 117, 100, 105, 111>>)
      [] OTHER -> None

model_for_extension(extension) ==
    LET key == normalize_extension(extension)
    IN  IF key = <<>> THEN default_model
        ELSE IF mappings_get(key).some THEN mappings_get(key).value
        ELSE default_model

FieldModelModifier_modify(value, row) ==
    LET ext == RowContext_get_first_non_empty(row, <<"file_extension", "file_extention">>)
        extension == IF ext.some THEN ext.value ELSE <<>>
        target_model == model_for_extension(extension)
        current_value == normalize_cell(value)
    IN  IF current_value = target_model THEN current_value ELSE target_model

\* dynamic dispatch on the boxed modifier stored for a column
Validate(modifier, value, row) ==
    CASE modifier = "AccessIdentifierValidator" -> AccessIdentifierValidator_validate(value, row)
      [] modifier = "ParentIdModifier" -> ParentIdModifier_validate(value, row)
      [] modifier = "FileExtensionModifier" -> FileExtensionModifier_validate(value, row)
      [] OTHER -> TRUE

Modify(modifier, value, row) ==
    CASE modifier = "AccessIdentifierValidator" -> AccessIdentifierValidator_modify(value, row)
      [] modifier = "FieldModelModifier" -> FieldModelModifier_modify(value, row)
      [] modifier = "FieldDescriptionSemicolonEscaper" -> FieldDescriptionSemicolonEscaper_modify(value)
      [] modifier = "ParentIdModifier" -> ParentIdModifier_modify(value, row)
      [] modifier = "FileExtensionModifier" -> FileExtensionModifier_modify(value, row)

(***************************************************************************)
(* The modifier map: a BTreeMap<String, _>, iterated in ascending order    *)
(* of the keys' bytes.                                                     *)
(***************************************************************************)
ColumnBytes(name) ==
    CASE name = "accessIdentifier" ->
             <<97, 99, 99, 101, 115, 115, 73, 100, 101, 110, 116, 105, 102, 105, 101, 114>>
      [] name = "field_description" ->
             <<102, 105, 101, 108, 100, 95, 100, 101, 115, 99, 114, 105, 112, 116, 105, 111, 110>>
      [] name = "field_model" -> <<102, 105, 101, 108, 100, 95, 109, 111, 100, 101, 108>>
      [] name = "file" -> <<102, 105, 108, 101>>
      [] name = "parent_id" -> <<112, 97, 114, 101, 110, 116, 95, 105, 100>>

\* Ord for str: lexicographic comparison of the bytes
RECURSIVE BytesLess(_, _)
BytesLess(a, b) ==
    IF b = <<>> THEN FALSE
    ELSE IF a = <<>> THEN TRUE
    ELSE IF Head(a) # Head(b) THEN Head(a) < Head(b)
    ELSE BytesLess(Tail(a), Tail(b))

ColumnLess(a, b) == BytesLess(ColumnBytes(a), ColumnBytes(b))

\* BTreeKeys iterating from the greatest key down
RECURSIVE BTreeKeys_Descending(_)
BTreeKeys_Descending(keys) ==
    IF keys = {} THEN <<>>
    ELSE LET first == CHOOSE k \in keys : \A o \in keys \ {k} : ColumnLess(o, k)
         IN  <<first>> \o BTreeKeys_Descending(keys \ {first})

\* the keys of the map in iteration order
RECURSIVE BTreeKeys(_)
BTreeKeys(keys) ==
    IF keys = {} THEN <<>>
    ELSE LET first == CHOOSE k \in keys : \A o \in keys \ {k} : ColumnLess(k, o)
         IN  <<first>> \o BTreeKeys(keys \ {first})

\* CsvModifier::new
CsvModifier_new ==
    [c \in {"accessIdentifier", "field_description"} |->
        IF c = "accessIdentifier" THEN "AccessIdentifierValidator"
        ELSE "FieldDescriptionSemicolonEscaper"]

\* CsvModifier::add_column_modifier
add_column_modifier(self, column, modifier) ==
    [c \in DOMAIN self \cup {column} |-> IF c = column THEN modifier ELSE self[c]]

\* header_map.get(name): the index the map holds for the name (the last
\* header of that name), 0 when the name is no header
header_map_get(name) ==
    LET hits == {i \in 1..Len(headers) : headers[i] = name}
    IN  IF hits = {} THEN 0 ELSE CHOOSE i \in hits : \A j \in hits : j <= i

\* title_column: title if present, otherwise fileTitle; 0 when neither is
title_column ==
    IF header_map_get("title") # 0 THEN header_map_get("title")
    ELSE header_map_get("fileTitle")

field_description_column == header_map_get("field_description")

(***************************************************************************)
(* One iteration of the row loop of process_csv_reader.  The working       *)
(* state of an iteration is a record st: the row (values), row_valid,      *)
(* current_access_identifier, the run's stats, the log state, the          *)
(* validate/modify calls made on the row (calls) and how the row ended     *)
(* (outcome).                                                              *)
(***************************************************************************)
LogCap == 25

\* LogFailure with the suppression flag not consulted
LogFailure_RepeatNotice(st) ==
    IF st.stats.validation_failures <= LogCap
    THEN [st EXCEPT !.logs.detail = @ + 1]
    ELSE [st EXCEPT !.logs.notice = @ + 1, !.suppressed = TRUE]

\* the capped diagnostic of a failure; validation_failures is already incremented
LogFailure(st) ==
    IF st.stats.validation_failures <= LogCap
    THEN [st EXCEPT !.logs.detail = @ + 1]
    ELSE IF ~st.suppressed
         THEN [st EXCEPT !.logs.notice = @ + 1, !.suppressed = TRUE]
         ELSE st

\* MarkFirstCell with the already-marked test left out
MarkFirstCell_Always(values) ==
    IF Len(values) = 0 THEN values ELSE [values EXCEPT ![1] = <<HASH>> \o @]

\* the '#' mark put on the first cell of a row without a title
MarkFirstCell(values) ==
    IF Len(values) = 0 THEN values
    ELSE IF values[1] # <<>> /\ values[1][1] = HASH THEN values
    ELSE IF values[1] = <<>> THEN [values EXCEPT ![1] = <<HASH>>]
    ELSE [values EXCEPT ![1] = <<HASH>> \o @]

\* SanitizeRow counting a row with changed cells once
SanitizeRow_OnePerRow(st, record) ==
    LET san == [i \in 1..Len(record) |-> sanitize_text_in_place(record[i])]
    IN  [st EXCEPT !.values = [i \in 1..Len(record) |-> san[i].value],
                   !.stats.cells_modified =
                       IF \E i \in 1..Len(record) : san[i].changed THEN @ + 1 ELSE @]

\* sanitize every cell of the record and count the changed ones
SanitizeRow(st, record) ==
    LET san == [i \in 1..Len(record) |-> sanitize_text_in_place(record[i])]
        sanitized_cells == Cardinality({i \in 1..Len(record) : san[i].changed})
    IN  [st EXCEPT !.values = [i \in 1..Len(record) |-> san[i].value],
                   !.stats.cells_modified = @ + sanitized_cells]

\* the title gate found no title: the failure is counted and logged, the
\* first cell marked, the row skipped
SkipUntitled(st) ==
    [LogFailure([st EXCEPT !.stats.validation_failures = @ + 1,
                           !.values = MarkFirstCell(@)]) EXCEPT
        !.stats.skipped_rows = @ + 1,
        !.outcome = "title"]

\* title_value: the normalized title cell of the row
TitleValue(values) ==
    IF title_column <= Len(values) THEN normalize_cell(values[title_column]) ELSE <<>>

TitleGate(st) ==
    IF title_column = 0 THEN st
    ELSE IF TitleValue(st.values) # <<>> THEN st
    ELSE SkipUntitled(st)

\* IsDuplicate with the lookup in the seen set lost
IsDuplicate_Never(normalized_value) == FALSE

\* seen_access_identifiers.contains(normalized_value)
IsDuplicate(normalized_value) == normalized_value \in seen_access_identifiers

\* InvalidatesRow with no column fatal to the row
InvalidatesRow_Never(column_name) == FALSE

\* InvalidatesRow with every column fatal to the row
InvalidatesRow_Always(column_name) == TRUE

\* whether a failed validation of this column marks the row invalid
InvalidatesRow(column_name) == column_name = "accessIdentifier"

\* ClearsCell leaving every cell as it is
ClearsCell_Never(column_name, original_cell_value) == FALSE

\* the cell is cleared after a failed validation of parent_id or file
ClearsCell(column_name, original_cell_value) ==
    /\ normalize_cell(original_cell_value) = <<>>
    /\ Trim(original_cell_value) # <<>>
    /\ column_name \in {"parent_id", "file"}
    /\ original_cell_value # <<>>

\* what the model records of one validate or modify call
Call(column_name, op, row_context, ok, result) ==
    [column |-> column_name, op |-> op, values |-> row_context.values,
     ok |-> ok, result |-> result]

\* duplicate_detected: the validated cell is a known access identifier
DuplicateDetected(column_name, cell) ==
    /\ column_name = "accessIdentifier"
    /\ normalize_cell(cell) # <<>>
    /\ IsDuplicate(normalize_cell(cell))

\* RejectDuplicate without the count of the failure
RejectDuplicate_Uncounted(st, column_name, row_context) ==
    [LogFailure(st) EXCEPT
        !.row_valid = FALSE,
        !.outcome = "duplicate",
        !.calls = Append(@, Call(column_name, "validate", row_context, TRUE, <<>>))]

\* validate returned true on a duplicate: the failure is counted and logged,
\* the row marked invalid
RejectDuplicate(st, column_name, row_context) ==
    [LogFailure([st EXCEPT !.stats.validation_failures = @ + 1]) EXCEPT
        !.row_valid = FALSE,
        !.outcome = "duplicate",
        !.calls = Append(@, Call(column_name, "validate", row_context, TRUE, <<>>))]

\* validate returned true: the identifier is remembered and modify's result stored
StoreModified(st, column_name, col_index, cell, new_value, row_context) ==
    [st EXCEPT
        !.current_access_identifier =
            IF column_name = "accessIdentifier" /\ normalize_cell(cell) # <<>>
            THEN Some(normalize_cell(cell))
            ELSE @,
        !.stats.cells_modified = IF cell # new_value THEN @ + 1 ELSE @,
        !.values[col_index] = new_value,
        !.calls = @ \o <<Call(column_name, "validate", row_context, TRUE, <<>>),
                         Call(column_name, "modify", row_context, TRUE, new_value)>>]

\* validate returned false: the failure is counted, a placeholder in parent_id
\* or file cleared, the diagnostic logged
CountFailure(st, column_name, col_index, clears, row_context) ==
    LogFailure([st EXCEPT
        !.stats.validation_failures = @ + 1,
        !.values[col_index] = IF clears THEN <<>> ELSE @,
        !.stats.cells_modified = IF clears THEN @ + 1 ELSE @,
        !.calls = Append(@, Call(column_name, "validate", row_context, FALSE, <<>>))])

\* the end of the failure branch: only accessIdentifier marks the row invalid
MarkInvalid(st, column_name) ==
    IF InvalidatesRow(column_name)
    THEN [st EXCEPT !.row_valid = FALSE, !.outcome = "invalid"]
    ELSE st

\* the body of the loop over column_modifiers once the cell is found
ApplyToCell(st, column_name, col_index, cell, row_context) ==
    IF Validate(column_modifiers[column_name], cell, row_context)
    THEN IF DuplicateDetected(column_name, cell)
         THEN RejectDuplicate(st, column_name, row_context)
         ELSE StoreModified(st, column_name, col_index, cell,
                            Modify(column_modifiers[column_name], cell, row_context),
                            row_context)
    ELSE MarkInvalid(CountFailure(st, column_name, col_index,
                                  ClearsCell(column_name, cell), row_context),
                     column_name)

\* the body of the loop over column_modifiers, for one (column_name, modifier)
ApplyModifier(st, column_name) ==
    IF header_map_get(column_name) = 0 \/ header_map_get(column_name) > Len(st.values)
    THEN st
    ELSE ApplyToCell(st, column_name, header_map_get(column_name),
                     st.values[header_map_get(column_name)],
                     RowContext_new(headers, st.values))

\* the loop over column_modifiers, left at the first modifier that marks the row invalid
RECURSIVE RunModifiers(_, _)
RunModifiers(st, keys) ==
    IF keys = <<>> \/ ~st.row_valid THEN st
    ELSE RunModifiers(ApplyModifier(st, Head(keys)), Tail(keys))

\* CommitIdentifier with the insert into the seen set lost
CommitIdentifier_Forget(st) == seen_access_identifiers

\* the identifiers known after the row was accepted
CommitIdentifier(st) ==
    IF st.current_access_identifier.some
    THEN seen_access_identifiers \cup {st.current_access_identifier.value}
    ELSE seen_access_identifiers

\* the quote wrapping of the field_description cell of an accepted row
WrapFieldDescription(st) ==
    LET field_idx == field_description_column
    IN  IF field_idx = 0 \/ field_idx > Len(st.values) THEN st
        ELSE LET w == ensure_wrapped_in_quotes(st.values[field_idx])
             IN  [st EXCEPT !.values[field_idx] = w.value,
                            !.stats.cells_modified = IF w.changed THEN @ + 1 ELSE @]

\* CloseRow with the skipped_rows increment of an invalid row lost
CloseRow_NoSkipCount(st) ==
    IF st.outcome = "title" THEN st
    ELSE IF ~st.row_valid THEN st
    ELSE [WrapFieldDescription(st) EXCEPT !.stats.total_rows = @ + 1, !.outcome = "written"]

\* the end of the iteration: skip the invalid row, or write the valid one
CloseRow(st) ==
    IF st.outcome = "title" THEN st
    ELSE IF ~st.row_valid THEN [st EXCEPT !.stats.skipped_rows = @ + 1]
    ELSE [WrapFieldDescription(st) EXCEPT !.stats.total_rows = @ + 1, !.outcome = "written"]

\* the working state at the top of the loop body
StartRow(record) ==
    [values |-> record, row_valid |-> TRUE, current_access_identifier |-> None,
     stats |-> stats, suppressed |-> validation_logging_suppressed,
     logs |-> logs, calls |-> <<>>, outcome |-> "pending"]

\* the title gate, then (unless it skipped the row) the modifier loop
GateAndModify(st) ==
    IF st.outcome = "title" THEN st
    ELSE RunModifiers(st, BTreeKeys(DOMAIN column_modifiers))

(***************************************************************************)
(* The inputs: header rows, modifier sets and cell values.                 *)
(***************************************************************************)
InputCells(column) ==
    CASE column = "accessIdentifier" ->
             {<<65, 95, 49>>, <<32, 65, 95, 49>>, <<66, 95, 49>>, <<65, 95, 48, 48, 49>>,
              <<65, 66>>,
              <<65, 95, 48, 48>>, <<65, 95, 48, 48, 48>>, <<35, 86, 65, 76, 85, 69, 33>>}
      [] column = "file" -> {<<102>>, <<35, 86, 65, 76, 85, 69, 33>>}
      [] column = "file_extension" -> {<<120>>}
      [] column = "file_extention" -> {<<46, 74, 80, 71>>, <<>>}
      [] column = "field_model" -> {<<>>, <<73, 109, 97, 103, 101>>}
      [] column = "parent_id" -> {<<>>, <<80>>}
      [] column = "title" -> {<<84>>, <<>>}
      [] column = "fileTitle" -> {<<84>>, <<NBSP>>}
      [] column = "notes" -> {<<35, 110, 59>>, <<110>>}
      [] column = "field_description" -> {<<>>, <<100, 59>>, <<QUOTE>>}

\* the records a reader over the given header row can yield
RECURSIVE Records(_)
Records(hdrs) ==
    IF hdrs = <<>> THEN {<<>>}
    ELSE {<<cell>> \o rest : cell \in InputCells(Head(hdrs)), rest \in Records(Tail(hdrs))}

\* the modifier set of the command line tool without field_model
WithParentAndFile ==
    add_column_modifier(add_column_modifier(CsvModifier_new, "parent_id", "ParentIdModifier"),
                        "file", "FileExtensionModifier")

\* the modifier set of the command line tool: create_modifier with every
\* modifier active
WithFieldModel == add_column_modifier(WithParentAndFile, "field_model", "FieldModelModifier")

Configurations ==
    { [headers |-> <<"title", "file_extention">>,
       modifiers |-> WithFieldModel],
      [headers |-> <<"file_extention", "field_model">>,
       modifiers |-> WithFieldModel],
      [headers |-> <<"accessIdentifier", "file", "file_extension", "parent_id", "title">>,
       modifiers |-> WithParentAndFile],
      [headers |-> <<"notes", "fileTitle", "field_description">>,
       modifiers |-> CsvModifier_new],
      [headers |-> <<"title", "accessIdentifier">>,
       modifiers |-> CsvModifier_new] }

\* ProcessingStats::new
ProcessingStats_new ==
    [total_rows |-> 0, cells_modified |-> 0, validation_failures |-> 0,
     skipped_rows |-> 0, columns_processed |-> {}]

\* ItemGenerationStats::default
ItemGenerationStats_default == [unique_parents |-> 0, total_items |-> 0, skipped_rows |-> 0]

\* HashMap::with_capacity: the empty map
EmptyMap == [k \in {} |-> 0]

ItemVars == <<node, parent_data, item_stats, items, items_file_created>>

\* generate is not running
IdleGenerator ==
    /\ node = None
    /\ parent_data = EmptyMap
    /\ item_stats = ItemGenerationStats_default
    /\ items = <<>>
    /\ items_file_created = FALSE

NoRow == [record |-> <<>>, sanitized |-> <<>>, values |-> <<>>, calls |-> <<>>,
          outcome |-> "none"]

NoText == [input |-> <<>>, once |-> <<>>, twice |-> <<>>,
           changed_once |-> FALSE, changed_twice |-> FALSE]

(***************************************************************************)
(* The processing pass.                                                    *)
(***************************************************************************)
Init ==
    /\ pc = "reading"
    /\ \E c \in Configurations :
          /\ headers = c.headers
          /\ written_headers = c.headers
          /\ column_modifiers = c.modifiers
    /\ stats = ProcessingStats_new
    /\ validation_logging_suppressed = FALSE
    /\ seen_access_identifiers = {}
    /\ output = <<>>
    /\ rows_read = 0
    /\ logs = [detail |-> 0, notice |-> 0]
    /\ last = NoRow
    /\ txt = NoText
    /\ IdleGenerator

\* reader.records() yields a record: one iteration of the loop
ProcessRow(record) ==
    /\ pc = "reading"
    /\ \E sanitized \in {SanitizeRow(StartRow(record), record)} :
       \E gated \in {TitleGate(sanitized)} :
       \E modified \in {GateAndModify(gated)} :
       \E st \in {CloseRow(modified)} :
          /\ stats' = st.stats
          /\ validation_logging_suppressed' = st.suppressed
          /\ logs' = st.logs
          /\ seen_access_identifiers' =
                IF st.outcome = "written" THEN CommitIdentifier(st)
                ELSE seen_access_identifiers
          /\ output' = IF st.outcome = "written" THEN Append(output, st.values) ELSE output
          /\ last' = [record |-> record, sanitized |-> sanitized.values,
                      values |-> st.values, calls |-> st.calls, outcome |-> st.outcome]
    /\ rows_read' = rows_read + 1
    /\ UNCHANGED <<pc, headers, written_headers, column_modifiers, txt>>
    /\ UNCHANGED ItemVars

\* EndOfInput recording only the modifier columns the header has
EndOfInput_OnlyHeaderColumns ==
    /\ pc = "reading"
    /\ stats' = [stats EXCEPT !.columns_processed =
                    @ \cup {c \in DOMAIN column_modifiers : header_map_get(c) # 0}]
    /\ pc' = "done"
    /\ UNCHANGED <<headers, written_headers, column_modifiers, validation_logging_suppressed,
                   seen_access_identifiers, output, rows_read, logs, last, txt>>
    /\ UNCHANGED ItemVars

\* reader.records() is exhausted: columns_processed is filled and the writer flushed
EndOfInput ==
    /\ pc = "reading"
    /\ stats' = [stats EXCEPT !.columns_processed = @ \cup DOMAIN column_modifiers]
    /\ pc' = "done"
    /\ UNCHANGED <<headers, written_headers, column_modifiers, validation_logging_suppressed,
                   seen_access_identifiers, output, rows_read, logs, last, txt>>
    /\ UNCHANGED ItemVars

Next ==
    \/ /\ pc = "reading"
       /\ rows_read < MaxRows
       /\ \E record \in Records(headers) : ProcessRow(record)
    \/ EndOfInput

Spec == Init /\ [][Next]_vars

(***************************************************************************)
(* A long processing pass over rows that fail: an empty title, a rejected  *)
(* identifier, a duplicate identifier, and rows whose file and parent_id   *)
(* both fail validation.                                                   *)
(***************************************************************************)
LogConfigurations ==
    { [headers |-> <<"title", "accessIdentifier">>, modifiers |-> CsvModifier_new],
      [headers |-> <<"file", "parent_id">>, modifiers |-> WithParentAndFile] }

\* "", T / A_1, A_00 / f / ""
LogCells(column) ==
    CASE column = "title" -> {<<>>, <<84>>}
      [] column = "accessIdentifier" -> {<<65, 95, 49>>, <<65, 95, 48, 48>>}
      [] column = "file" -> {<<102>>}
      [] column = "parent_id" -> {<<>>}

RECURSIVE LogRecords(_)
LogRecords(hdrs) ==
    IF hdrs = <<>> THEN {<<>>}
    ELSE {<<cell>> \o rest : cell \in LogCells(Head(hdrs)), rest \in LogRecords(Tail(hdrs))}

InitLog ==
    /\ pc = "reading"
    /\ \E c \in LogConfigurations :
          /\ headers = c.headers
          /\ written_headers = c.headers
          /\ column_modifiers = c.modifiers
    /\ stats = ProcessingStats_new
    /\ validation_logging_suppressed = FALSE
    /\ seen_access_identifiers = {}
    /\ output = <<>>
    /\ rows_read = 0
    /\ logs = [detail |-> 0, notice |-> 0]
    /\ last = NoRow
    /\ txt = NoText
    /\ IdleGenerator

NextLog ==
    \/ /\ pc = "reading"
       /\ rows_read < MaxLogRows
       /\ \E record \in LogRecords(headers) : ProcessRow(record)
    \/ EndOfInput

SpecLog == InitLog /\ [][NextLog]_vars

(***************************************************************************)
(* Ragged input and failing cells: a header without the identifier column, *)
(* so that every validation of file and parent_id fails, and records that  *)
(* are shorter than the header.                                            *)
(***************************************************************************)
CellConfigurations ==
    { [headers |-> <<"file", "parent_id">>, modifiers |-> WithParentAndFile],
      [headers |-> <<"accessIdentifier", "file", "title">>,
       modifiers |-> WithParentAndFile] }

\* f, #VALUE!, a no-break space / "", #VALUE!, P / A_1, A_00 / T, a no-break space
CellCells(column) ==
    CASE column = "file" -> {<<102>>, <<35, 86, 65, 76, 85, 69, 33>>, <<NBSP>>}
      [] column = "parent_id" -> {<<>>, <<35, 86, 65, 76, 85, 69, 33>>, <<80>>}
      [] column = "accessIdentifier" -> {<<65, 95, 49>>, <<65, 95, 48, 48>>}
      [] column = "title" -> {<<84>>, <<NBSP>>}

RECURSIVE CellRecords(_)
CellRecords(hdrs) ==
    IF hdrs = <<>> THEN {<<>>}
    ELSE {<<cell>> \o rest : cell \in CellCells(Head(hdrs)), rest \in CellRecords(Tail(hdrs))}

\* the records of a ragged file: at least one cell, fewer cells than the header
ShortRecords(hdrs) ==
    {SubSeq(r, 1, n) : r \in CellRecords(hdrs), n \in 1..(Len(hdrs) - 1)}

\* reader.records() yields an error: the reader is built by Reader::from_reader,
\* which does not accept a record whose width differs from the header's, and
\* `result?` returns the error from process_csv_reader
RecordError(record) ==
    /\ pc = "reading"
    /\ Len(record) # Len(headers)
    /\ pc' = "error"
    /\ last' = [NoRow EXCEPT !.record = record, !.outcome = "error"]
    /\ UNCHANGED <<headers, written_headers, column_modifiers, stats,
                   validation_logging_suppressed, seen_access_identifiers, output,
                   rows_read, logs, txt>>
    /\ UNCHANGED ItemVars

InitCells ==
    /\ pc = "reading"
    /\ \E c \in CellConfigurations :
          /\ headers = c.headers
          /\ written_headers = c.headers
          /\ column_modifiers = c.modifiers
    /\ stats = ProcessingStats_new
    /\ validation_logging_suppressed = FALSE
    /\ seen_access_identifiers = {}
    /\ output = <<>>
    /\ rows_read = 0
    /\ logs = [detail |-> 0, notice |-> 0]
    /\ last = NoRow
    /\ txt = NoText
    /\ IdleGenerator

NextCells ==
    \/ /\ rows_read < MaxRows
       /\ \E record \in CellRecords(headers) : ProcessRow(record)
    \/ /\ rows_read < MaxRows
       /\ \E record \in ShortRecords(headers) : RecordError(record)
    \/ EndOfInput

SpecCells == InitCells /\ [][NextCells]_vars

(***************************************************************************)
(* The text functions on their own: sanitize_text_in_place applied to a    *)
(* cell and then to its own result.                                        *)
(***************************************************************************)
RECURSIVE Texts(_, _)
Texts(alphabet, n) ==
    IF n = 0 THEN {<<>>}
    ELSE LET shorter == Texts(alphabet, n - 1)
         IN  shorter \cup {<<c>> \o t : c \in alphabet, t \in {u \in shorter : Len(u) = n - 1}}

\* e, NBSP, the markers A-tilde, A-circumflex, a-circumflex, euro, trade mark,
\* and the non-markers f-hook and copyright
SanitizeAlphabet == {101, 160, 195, 194, 226, 8364, 8482, 402, 169}

IdleRun ==
    /\ headers = <<>>
    /\ written_headers = <<>>
    /\ column_modifiers = CsvModifier_new
    /\ stats = ProcessingStats_new
    /\ validation_logging_suppressed = FALSE
    /\ seen_access_identifiers = {}
    /\ output = <<>>
    /\ rows_read = 0
    /\ logs = [detail |-> 0, notice |-> 0]
    /\ last = NoRow
    /\ IdleGenerator

RunVars == <<headers, written_headers, column_modifiers, stats, validation_logging_suppressed,
             seen_access_identifiers, output, rows_read, logs, last,
             node, parent_data, item_stats, items, items_file_created>>

InitSanitize ==
    /\ pc = "sanitize"
    /\ \E t \in Texts(SanitizeAlphabet, MaxTextLen) : txt = [NoText EXCEPT !.input = t]
    /\ IdleRun

SanitizeOnce ==
    /\ pc = "sanitize"
    /\ LET r == sanitize_text_in_place(txt.input)
       IN  txt' = [txt EXCEPT !.once = r.value, !.changed_once = r.changed]
    /\ pc' = "sanitized"
    /\ UNCHANGED RunVars

SanitizeAgain ==
    /\ pc = "sanitized"
    /\ LET r == sanitize_text_in_place(txt.once)
       IN  txt' = [txt EXCEPT !.twice = r.value, !.changed_twice = r.changed]
    /\ pc' = "resanitized"
    /\ UNCHANGED RunVars

NextSanitize == SanitizeOnce \/ SanitizeAgain

SpecSanitize == InitSanitize /\ [][NextSanitize]_vars

(***************************************************************************)
(* What the row loop does to the field_description cell of a row it        *)
(* writes: the escaper's modify, then ensure_wrapped_in_quotes.            *)
(***************************************************************************)
FieldDescriptionCell(value) ==
    ensure_wrapped_in_quotes(FieldDescriptionSemicolonEscaper_modify(value)).value

\* a, semicolon, backslash, double quote
DescriptionAlphabet == {97, SEMICOLON, BACKSLASH, QUOTE}

InitDescription ==
    /\ pc = "describe"
    /\ \E t \in Texts(DescriptionAlphabet, MaxDescLen) : txt = [NoText EXCEPT !.input = t]
    /\ IdleRun

DescribeOnce ==
    /\ pc = "describe"
    /\ txt' = [txt EXCEPT !.once = FieldDescriptionCell(txt.input)]
    /\ pc' = "described"
    /\ UNCHANGED RunVars

DescribeAgain ==
    /\ pc = "described"
    /\ txt' = [txt EXCEPT !.twice = FieldDescriptionCell(txt.once)]
    /\ pc' = "redescribed"
    /\ UNCHANGED RunVars

NextDescription == DescribeOnce \/ DescribeAgain

SpecDescription == InitDescription /\ [][NextDescription]_vars

(***************************************************************************)
(* The file modifier on its own: validate and modify called on the file    *)
(* cell of one row.                                                        *)
(***************************************************************************)
FileHeaders ==
    { <<"accessIdentifier", "file", "file_extension", "file_extention">>,
      <<"file_extention", "file", "accessIdentifier">> }

\* "", A_1, A_B_1, #VALUE! / "", f, f.o, " f.a.b", #VALUE! / "", x, #VALUE! / "", y
FileCells(column) ==
    CASE column = "accessIdentifier" ->
             {<<>>, <<65, 95, 49>>, <<65, 95, 66, 95, 49>>, <<35, 86, 65, 76, 85, 69, 33>>}
      [] column = "file" ->
             {<<>>, <<102>>, <<102, 46, 111>>, <<32, 102, 46, 97, 46, 98>>,
              <<35, 86, 65, 76, 85, 69, 33>>}
      [] column = "file_extension" -> {<<>>, <<120>>, <<35, 86, 65, 76, 85, 69, 33>>}
      [] column = "file_extention" -> {<<>>, <<121>>}

RECURSIVE FileRecords(_)
FileRecords(hdrs) ==
    IF hdrs = <<>> THEN {<<>>}
    ELSE {<<cell>> \o rest : cell \in FileCells(Head(hdrs)), rest \in FileRecords(Tail(hdrs))}

InitFile ==
    /\ pc = "file"
    /\ \E h \in FileHeaders :
          /\ headers = h
          /\ \E record \in FileRecords(h) : last = [NoRow EXCEPT !.record = record]
    /\ written_headers = <<>>
    /\ column_modifiers = WithParentAndFile
    /\ stats = ProcessingStats_new
    /\ validation_logging_suppressed = FALSE
    /\ seen_access_identifiers = {}
    /\ output = <<>>
    /\ rows_read = 0
    /\ logs = [detail |-> 0, notice |-> 0]
    /\ txt = NoText
    /\ IdleGenerator

\* modifier.validate and modifier.modify on the file cell of the row
FileCall ==
    /\ pc = "file"
    /\ header_map_get("file") # 0
    /\ LET row_context == RowContext_new(headers, last.record)
           cell == last.record[header_map_get("file")]
       IN  last' = [last EXCEPT !.calls =
                      <<Call("file", "validate", row_context,
                             FileExtensionModifier_validate(cell, row_context), <<>>),
                        Call("file", "modify", row_context, TRUE,
                             FileExtensionModifier_modify(cell, row_context))>>]
    /\ pc' = "filed"
    /\ UNCHANGED <<headers, written_headers, column_modifiers, stats,
                   validation_logging_suppressed, seen_access_identifiers, output,
                   rows_read, logs, txt>>
    /\ UNCHANGED ItemVars

NextFile == FileCall

SpecFile == InitFile /\ [][NextFile]_vars

(***************************************************************************)
(* ItemCsvGenerator (src/src/item_csv_generator.rs): the date heuristics.  *)
(***************************************************************************)
HYPHEN == 45

\* the UTF-8 bytes of one code point
Utf8Encode(c) ==
    IF c < 128 THEN <<c>>
    ELSE IF c < 2048 THEN <<192 + (c \div 64), 128 + (c % 64)>>
    ELSE IF c < 65536
         THEN <<224 + (c \div 4096), 128 + ((c \div 64) % 64), 128 + (c % 64)>>
    ELSE <<240 + (c \div 262144), 128 + ((c \div 4096) % 64),
           128 + ((c \div 64) % 64), 128 + (c % 64)>>

\* str::as_bytes
RECURSIVE as_bytes(_)
as_bytes(s) == IF s = <<>> THEN <<>> ELSE Utf8Encode(Head(s)) \o as_bytes(Tail(s))

is_ascii_digit(b) == b \in 48..57

AllDigits(bytes) == \A i \in 1..Len(bytes) : is_ascii_digit(bytes[i])

\* str::parse of a string of ASCII digits
RECURSIVE ParseDigits(_)
ParseDigits(bytes) ==
    IF bytes = <<>> THEN 0
    ELSE ParseDigits(SubSeq(bytes, 1, Len(bytes) - 1)) * 10 + (bytes[Len(bytes)] - 48)

\* parse_month_slice over bytes[start..end): start counts from 0, end is exclusive
parse_month_slice(bytes, start, end) ==
    IF start >= end \/ end > Len(bytes) THEN None
    ELSE IF /\ AllDigits(SubSeq(bytes, start + 1, end))
            /\ ParseDigits(SubSeq(bytes, start + 1, end)) \in 1..12
         THEN Some(ParseDigits(SubSeq(bytes, start + 1, end)))
         ELSE None

\* the scan for the first four consecutive digits that read as a year of
\* 1000..=2999, from offset i (counted from 0): its offset and the year
RECURSIVE FindYear(_, _)
FindYear(bytes, i) ==
    IF i + 4 > Len(bytes) THEN None
    ELSE IF /\ AllDigits(SubSeq(bytes, i + 1, i + 4))
            /\ ParseDigits(SubSeq(bytes, i + 1, i + 4)) \in 1000..2999
         THEN Some([y_idx |-> i, year |-> ParseDigits(SubSeq(bytes, i + 1, i + 4))])
         ELSE FindYear(bytes, i + 1)

Min(a, b) == IF a <= b THEN a ELSE b

\* the month after the year: YYYY[-/]MM
MonthAfter(bytes, y_idx) ==
    IF y_idx + 5 <= Len(bytes) /\ bytes[y_idx + 5] \in {HYPHEN, SLASH}
    THEN parse_month_slice(bytes, y_idx + 5, Min(y_idx + 7, Len(bytes)))
    ELSE None

\* the month before the year: MM[-/]YYYY, two digits tried before one
MonthBefore(bytes, y_idx) ==
    IF y_idx >= 2 /\ bytes[y_idx] \in {HYPHEN, SLASH}
    THEN IF y_idx - 1 >= 2 /\ parse_month_slice(bytes, y_idx - 3, y_idx - 1).some
         THEN parse_month_slice(bytes, y_idx - 3, y_idx - 1)
         ELSE parse_month_slice(bytes, y_idx - 2, y_idx - 1)
    ELSE None

\* the year found and the month next to it, if any
YearAndMonth(bytes, found) ==
    IF MonthAfter(bytes, found.y_idx).some
    THEN Some([year |-> found.year, month |-> MonthAfter(bytes, found.y_idx)])
    ELSE Some([year |-> found.year, month |-> MonthBefore(bytes, found.y_idx)])

parse_year_and_month(value) ==
    IF Trim(value) = <<>> THEN None
    ELSE IF ~FindYear(as_bytes(Trim(value)), 0).some THEN None
    ELSE YearAndMonth(as_bytes(Trim(value)), FindYear(as_bytes(Trim(value)), 0).value)

\* usize::to_string, u16::to_string
RECURSIVE ToDecimal(_)
ToDecimal(n) ==
    IF n < 10 THEN <<48 + n>> ELSE ToDecimal(n \div 10) \o <<48 + (n % 10)>>

\* format!("{:02}/{}", m, y)
FormatMonthYear(m, y) ==
    (IF m < 10 THEN <<48>> \o ToDecimal(m) ELSE ToDecimal(m)) \o <<SLASH>> \o ToDecimal(y)

(***************************************************************************)
(* ItemCsvGenerator::generate: rows grouped by parent_id, one summary row  *)
(* per group.                                                              *)
(***************************************************************************)
\* headers.iter().position(|h| h == name): the first index, 0 for None
Position(hdrs, name) ==
    LET hits == {i \in 1..Len(hdrs) : hdrs[i] = name}
    IN  IF hits = {} THEN 0 ELSE CHOOSE i \in hits : \A j \in hits : i <= j

\* MissingColumn asking for parent_id only
MissingColumn_OnlyParent(hdrs) == Position(hdrs, "parent_id") = 0

\* the two lookups that end generate with an error
MissingColumn(hdrs) == Position(hdrs, "parent_id") = 0 \/ Position(hdrs, "fileTitle") = 0

\* GroupData::default
GroupData_default ==
    [title |-> <<>>, count |-> 0, year_month_counts |-> EmptyMap,
     year_counts |-> EmptyMap, total_date_samples |-> 0]

\* *map.entry(key).or_insert(0) += 1
Increment(map, key) ==
    [k \in DOMAIN map \cup {key} |->
        IF k = key THEN (IF key \in DOMAIN map THEN map[key] ELSE 0) + 1 ELSE map[k]]

\* SkipsRow with the placeholder taken for a parent
SkipsRow_OnlyEmpty(parent_id_raw) == Trim(parent_id_raw) = <<>>

\* the row has no parent and is left out of every group
SkipsRow(parent_id_raw) == is_effectively_empty(parent_id_raw)

\* GroupTitle with the title taken from every row that has one
GroupTitle_Latest(title, file_title_clean) ==
    IF file_title_clean # <<>> THEN file_title_clean ELSE title

\* entry.title after the row
GroupTitle(title, file_title_clean) ==
    IF title = <<>> /\ file_title_clean # <<>> THEN file_title_clean ELSE title

\* DateSource turning to the file title whenever the field_date cell gives no date
DateSource_TitleWhenUndated(record, file_title_clean) ==
    IF /\ Position(headers, "field_date") # 0
       /\ parse_year_and_month(normalize_cell(record[Position(headers, "field_date")])).some
    THEN Some(normalize_cell(record[Position(headers, "field_date")]))
    ELSE IF file_title_clean # <<>> THEN Some(file_title_clean)
    ELSE None

\* date_source: the field_date cell if it has a value, otherwise the file title
DateSource(record, file_title_clean) ==
    IF /\ Position(headers, "field_date") # 0
       /\ normalize_cell(record[Position(headers, "field_date")]) # <<>>
    THEN Some(normalize_cell(record[Position(headers, "field_date")]))
    ELSE IF file_title_clean # <<>> THEN Some(file_title_clean)
    ELSE None

\* the date sample of a row added to the counts of its group
AddSample(entry, parsed) ==
    IF ~parsed.some THEN entry
    ELSE [entry EXCEPT
            !.total_date_samples = @ + 1,
            !.year_counts = Increment(@, parsed.value.year),
            !.year_month_counts =
                IF parsed.value.month.some
                THEN Increment(@, <<parsed.value.year, parsed.value.month.value>>)
                ELSE @]

ParsedDate(date_source) ==
    IF date_source.some THEN parse_year_and_month(date_source.value) ELSE None

\* the group entry after one of its rows
AddToGroup(entry, record, file_title_clean) ==
    AddSample([entry EXCEPT !.title = GroupTitle(@, file_title_clean), !.count = @ + 1],
              ParsedDate(DateSource(record, file_title_clean)))

\* parent_data.entry(key).or_default(), updated by the row
GroupRow(key, record) ==
    [k \in DOMAIN parent_data \cup {key} |->
        IF k = key
        THEN AddToGroup(IF key \in DOMAIN parent_data THEN parent_data[key]
                        ELSE GroupData_default,
                        record,
                        normalize_cell(record[Position(headers, "fileTitle")]))
        ELSE parent_data[k]]

\* String::cmp on the parent keys
KeyLess(a, b) == BytesLess(as_bytes(a), as_bytes(b))

\* SortedKeys from the greatest key down
RECURSIVE SortedKeys_Descending(_)
SortedKeys_Descending(keys) ==
    IF keys = {} THEN <<>>
    ELSE LET first == CHOOSE k \in keys : \A o \in keys \ {k} : KeyLess(o, k)
         IN  <<first>> \o SortedKeys_Descending(keys \ {first})

\* sorted_data.sort_by(|a, b| a.0.cmp(&b.0)): the keys in ascending order
RECURSIVE SortedKeys(_)
SortedKeys(keys) ==
    IF keys = {} THEN <<>>
    ELSE LET first == CHOOSE k \in keys : \A o \in keys \ {k} : KeyLess(k, o)
         IN  <<first>> \o SortedKeys(keys \ {first})

\* the fold over year_counts: the sum of year * count
RECURSIVE YearSum(_)
YearSum(year_counts) ==
    IF DOMAIN year_counts = {} THEN 0
    ELSE LET yy == CHOOSE y \in DOMAIN year_counts : TRUE
         IN  yy * year_counts[yy]
               + YearSum([y \in DOMAIN year_counts \ {yy} |-> year_counts[y]])

\* the fold over year_counts: the sum of the counts
RECURSIVE YearTotal(_)
YearTotal(year_counts) ==
    IF DOMAIN year_counts = {} THEN 0
    ELSE LET yy == CHOOSE y \in DOMAIN year_counts : TRUE
         IN  year_counts[yy] + YearTotal([y \in DOMAIN year_counts \ {yy} |-> year_counts[y]])

\* ((sum as f64) / (total as f64)).round() as u16, for total > 0: f64::round
\* takes a half away from zero
RoundedMean(sum, total) == (2 * sum + total) \div (2 * total)

\* what max_by_key can return over the map's iteration order: any of the
\* pairs of greatest count, None for an empty map
MaxPairs(year_month_counts) ==
    IF DOMAIN year_month_counts = {} THEN {None}
    ELSE {Some([year |-> p[1], month |-> p[2], count |-> year_month_counts[p]]) :
            p \in {q \in DOMAIN year_month_counts :
                     \A r \in DOMAIN year_month_counts :
                        year_month_counts[r] <= year_month_counts[q]}}

\* FieldDate taking half of the samples for a majority
FieldDate_HalfIsMajority(group, dominant_ym) ==
    IF group.total_date_samples = 0 THEN <<>>
    ELSE IF dominant_ym.some
         THEN IF dominant_ym.value.count * 2 >= group.total_date_samples
              THEN FormatMonthYear(dominant_ym.value.month, dominant_ym.value.year)
              ELSE ToDecimal(RoundedMean(YearSum(group.year_counts),
                                         YearTotal(group.year_counts)))
         ELSE ToDecimal(RoundedMean(YearSum(group.year_counts), YearTotal(group.year_counts)))

\* field_date_value of a group
FieldDate(group, dominant_ym) ==
    IF group.total_date_samples = 0 THEN <<>>
    ELSE IF dominant_ym.some
         THEN IF dominant_ym.value.count * 2 > group.total_date_samples
              THEN FormatMonthYear(dominant_ym.value.month, dominant_ym.value.year)
              ELSE IF YearTotal(group.year_counts) > 0
                   THEN ToDecimal(RoundedMean(YearSum(group.year_counts),
                                              YearTotal(group.year_counts)))
                   ELSE ToDecimal(dominant_ym.value.year)
         ELSE IF YearTotal(group.year_counts) > 0
              THEN ToDecimal(RoundedMean(YearSum(group.year_counts),
                                         YearTotal(group.year_counts)))
              ELSE <<>>

\* the header record of the summary file
ItemHeader == <<"file_identifier", "title", "# of items", "field_member_of", "field_date">>

\* node.unwrap_or("")
node_value == IF node.some THEN node.value ELSE <<>>

\* the record written for one group
ItemRow(file_identifier, group, dominant_ym) ==
    <<file_identifier, group.title, ToDecimal(group.count), node_value,
      FieldDate(group, dominant_ym)>>

\* one result of max_by_key for every group
DominantChoices ==
    {f \in [DOMAIN parent_data ->
               UNION {MaxPairs(parent_data[k].year_month_counts) : k \in DOMAIN parent_data}] :
        \A k \in DOMAIN parent_data : f[k] \in MaxPairs(parent_data[k].year_month_counts)}

\* the column lookups after the header is read: an error ends generate
FindColumns ==
    /\ pc = "generate"
    /\ pc' = IF MissingColumn(headers) THEN "failed" ELSE "grouping"
    /\ UNCHANGED <<headers, written_headers, column_modifiers, stats,
                   validation_logging_suppressed, seen_access_identifiers, output,
                   rows_read, logs, last, txt>>
    /\ UNCHANGED ItemVars

\* reader.records() yields a record: one iteration of the grouping loop
ReadItem(record) ==
    /\ pc = "grouping"
    /\ items' = Append(items, record)
    /\ IF SkipsRow(record[Position(headers, "parent_id")])
       THEN /\ item_stats' = [item_stats EXCEPT !.total_items = @ + 1, !.skipped_rows = @ + 1]
            /\ parent_data' = parent_data
       ELSE /\ item_stats' = [item_stats EXCEPT !.total_items = @ + 1]
            /\ parent_data' =
                  GroupRow(normalize_cell(record[Position(headers, "parent_id")]), record)
    /\ UNCHANGED <<pc, headers, written_headers, column_modifiers, stats,
                   validation_logging_suppressed, seen_access_identifiers, output,
                   rows_read, logs, last, txt, node, items_file_created>>

\* reader.records() is exhausted: the output file is created and the header
\* and one row per group, in key order, written
WriteItems ==
    /\ pc = "grouping"
    /\ item_stats' = [item_stats EXCEPT !.unique_parents = Cardinality(DOMAIN parent_data)]
    /\ items_file_created' = TRUE
    /\ written_headers' = ItemHeader
    /\ \E dominant \in DominantChoices :
       \E sorted_data \in {SortedKeys(DOMAIN parent_data)} :
          output' = [i \in 1..Len(sorted_data) |->
                        ItemRow(sorted_data[i], parent_data[sorted_data[i]],
                                dominant[sorted_data[i]])]
    /\ pc' = "generated"
    /\ UNCHANGED <<headers, column_modifiers, stats, validation_logging_suppressed,
                   seen_access_identifiers, rows_read, logs, last, txt,
                   node, parent_data, items>>

ItemHeaders ==
    { <<"parent_id", "fileTitle", "field_date">>,
      <<"fileTitle", "parent_id">>,
      <<"parent_id", "field_date">>,
      <<"fileTitle", "field_date">> }

\* "", #VALUE!, B, " A" / "", T, U / 2024-05
ItemCells(column) ==
    CASE column = "parent_id" ->
             {<<>>, <<35, 86, 65, 76, 85, 69, 33>>, <<66>>, <<32, 65>>}
      [] column = "fileTitle" -> {<<>>, <<84>>, <<85>>}
      [] column = "field_date" -> {<<50, 48, 50, 52, 45, 48, 53>>}

RECURSIVE ItemRecords(_)
ItemRecords(hdrs) ==
    IF hdrs = <<>> THEN {<<>>}
    ELSE {<<cell>> \o rest : cell \in ItemCells(Head(hdrs)), rest \in ItemRecords(Tail(hdrs))}

\* the pipeline is not running
IdlePipeline ==
    /\ column_modifiers = CsvModifier_new
    /\ stats = ProcessingStats_new
    /\ validation_logging_suppressed = FALSE
    /\ seen_access_identifiers = {}
    /\ rows_read = 0
    /\ logs = [detail |-> 0, notice |-> 0]
    /\ last = NoRow
    /\ txt = NoText

\* generate has opened the input and read its header
InitItems ==
    /\ pc = "generate"
    /\ headers \in ItemHeaders
    /\ node \in {None, Some(<<55>>)}
    /\ written_headers = <<>>
    /\ output = <<>>
    /\ parent_data = EmptyMap
    /\ item_stats = ItemGenerationStats_default
    /\ items = <<>>
    /\ items_file_created = FALSE
    /\ IdlePipeline

NextItems ==
    \/ FindColumns
    \/ /\ pc = "grouping"
       /\ Len(items) < MaxItems
       /\ \E record \in ItemRecords(headers) : ReadItem(record)
    \/ WriteItems

SpecItems == InitItems /\ [][NextItems]_vars

\* A / "", R 2022 / "", 2024-05, 2023, 11/2024, x
DateCells(column) ==
    CASE column = "parent_id" -> {<<65>>}
      [] column = "fileTitle" -> {<<>>, <<82, 32, 50, 48, 50, 50>>}
      [] column = "field_date" ->
             {<<>>, <<50, 48, 50, 52, 45, 48, 53>>, <<50, 48, 50, 51>>,
              <<49, 49, 47, 50, 48, 50, 52>>, <<120>>}

\* the header rows of the date runs: with and without a field_date column
DateHeaders == {<<"parent_id", "fileTitle", "field_date">>, <<"fileTitle", "parent_id">>}

RECURSIVE DateRecords(_)
DateRecords(hdrs) ==
    IF hdrs = <<>> THEN {<<>>}
    ELSE {<<cell>> \o rest : cell \in DateCells(Head(hdrs)), rest \in DateRecords(Tail(hdrs))}

\* generate on the rows of one group, with dates in the field_date column and
\* in the file titles
InitDates ==
    /\ pc = "generate"
    /\ headers \in DateHeaders
    /\ node = None
    /\ written_headers = <<>>
    /\ output = <<>>
    /\ parent_data = EmptyMap
    /\ item_stats = ItemGenerationStats_default
    /\ items = <<>>
    /\ items_file_created = FALSE
    /\ IdlePipeline

NextDates ==
    \/ FindColumns
    \/ /\ pc = "grouping"
       /\ Len(items) < MaxDates
       /\ \E record \in DateRecords(headers) : ReadItem(record)
    \/ WriteItems

SpecDates == InitDates /\ [][NextDates]_vars

(***************************************************************************)
(* parse_year_and_month on its own, applied to one text.                   *)
(***************************************************************************)
\* what stands before the digits: "", 1, 3-, 12/, 13/, x5/, 00/
DatePrefixes ==
    {<<>>,
     <<49>>,
     <<51, 45>>,
     <<49, 50, 47>>,
     <<49, 51, 47>>,
     <<120, 53, 47>>,
     <<48, 48, 47>>}

\* the digits: 2024, 0999, 3000, 202, 20245
DateDigits ==
    {<<50, 48, 50, 52>>,
     <<48, 57, 57, 57>>,
     <<51, 48, 48, 48>>,
     <<50, 48, 50>>,
     <<50, 48, 50, 52, 53>>}

\* what follows the digits: "", -3, -03, -3-15, /12, -13, -1x, 5, /0, " "
DateSuffixes ==
    {<<>>,
     <<45, 51>>,
     <<45, 48, 51>>,
     <<45, 51, 45, 49, 53>>,
     <<47, 49, 50>>,
     <<45, 49, 51>>,
     <<45, 49, 120>>,
     <<53>>,
     <<47, 48>>,
     <<32>>}

DateTexts == {p \o d \o s : p \in DatePrefixes, d \in DateDigits, s \in DateSuffixes}

InitParse ==
    /\ pc = "parse"
    /\ \E text \in DateTexts : last = [NoRow EXCEPT !.record = <<text>>]
    /\ headers = <<"field_date">>
    /\ written_headers = <<>>
    /\ output = <<>>
    /\ column_modifiers = CsvModifier_new
    /\ stats = ProcessingStats_new
    /\ validation_logging_suppressed = FALSE
    /\ seen_access_identifiers = {}
    /\ rows_read = 0
    /\ logs = [detail |-> 0, notice |-> 0]
    /\ txt = NoText
    /\ IdleGenerator

\* parse_year_and_month(&field_date_clean)
ParseDate ==
    /\ pc = "parse"
    /\ \E parsed \in {parse_year_and_month(last.record[1])} :
          last' = [last EXCEPT !.calls =
                     <<[column |-> "field_date", op |-> "parse_year_and_month",
                        values |-> last.record, ok |-> parsed.some,
                        result |-> parsed.value]>>,
                   !.outcome = "parsed"]
    /\ pc' = "parsed"
    /\ UNCHANGED <<headers, written_headers, column_modifiers, stats,
                   validation_logging_suppressed, seen_access_identifiers, output,
                   rows_read, logs, txt>>
    /\ UNCHANGED ItemVars

NextParse == ParseDate

SpecParse == InitParse /\ [][NextParse]_vars

(***************************************************************************)
(* Properties of the processing pass.                                      *)
(***************************************************************************)
AccessIdentifierColumn == header_map_get("accessIdentifier")

ValidatorActive ==
    /\ AccessIdentifierColumn # 0
    /\ "accessIdentifier" \in DOMAIN column_modifiers
    /\ column_modifiers["accessIdentifier"] = "AccessIdentifierValidator"

\* the normalized accessIdentifier values of the given written rows
WrittenIdentifiers(rows) ==
    IF AccessIdentifierColumn = 0 THEN {}
    ELSE {normalize_cell(rows[i][AccessIdentifierColumn]) : i \in 1..Len(rows)}

\* this step is one iteration of the row loop
RowRead == rows_read' = rows_read + 1

HasSemicolon(cell) == \E i \in 1..Len(cell) : cell[i] = SEMICOLON

FailedValidations(calls) == {i \in 1..Len(calls) : calls[i].op = "validate" /\ ~calls[i].ok}

\* C1: every row read increments exactly one of total_rows and skipped_rows, so
\* total_rows + skipped_rows is the number of rows read; exactly total_rows rows
\* are in the output; a counted row is appended whole and a skipped row adds
\* nothing to the output.
C1_RowAccounting ==
    [][ /\ stats'.total_rows + stats'.skipped_rows = rows_read'
        /\ Len(output') = stats'.total_rows
        /\ RowRead =>
             \/ /\ stats'.total_rows = stats.total_rows + 1
                /\ stats'.skipped_rows = stats.skipped_rows
                /\ output' = Append(output, last'.values)
                /\ Len(last'.values) = Len(headers)
             \/ /\ stats'.total_rows = stats.total_rows
                /\ stats'.skipped_rows = stats.skipped_rows + 1
                /\ output' = output ]_vars

C1_Witness ==
    /\ rows_read >= 2
    /\ stats.total_rows >= 1
    /\ stats.skipped_rows >= 1
    /\ last.outcome = "invalid"

\* C2: with the built-in validator on an accessIdentifier column, no two written
\* rows have the same normalized accessIdentifier, and a row whose normalized
\* identifier is that of a row already written is skipped, with
\* validation_failures and skipped_rows each one higher.
C2_NoDuplicateIdentifiers ==
    [][ ValidatorActive =>
          /\ \A i, j \in 1..Len(output') :
                i # j => normalize_cell(output'[i][AccessIdentifierColumn])
                         # normalize_cell(output'[j][AccessIdentifierColumn])
          /\ ( /\ RowRead
               /\ normalize_cell(last'.sanitized[AccessIdentifierColumn])
                     \in WrittenIdentifiers(output) )
             => /\ output' = output
                /\ stats'.validation_failures = stats.validation_failures + 1
                /\ stats'.skipped_rows = stats.skipped_rows + 1
                /\ stats'.total_rows = stats.total_rows ]_vars

C2_Witness ==
    /\ ValidatorActive
    /\ last.outcome = "duplicate"
    /\ Len(output) >= 1
    /\ last.record[AccessIdentifierColumn] # output[1][AccessIdentifierColumn]
    /\ normalize_cell(last.record[AccessIdentifierColumn]) \in WrittenIdentifiers(output)

\* C3: a row whose normalized title (title, otherwise fileTitle) is empty is
\* skipped: nothing is written, validation_failures and skipped_rows are each one
\* higher, no validate or modify was called on it, and its first cell carries
\* one '#' in front: it is left as it is when it already starts with '#'.
C3_TitleGate ==
    [][ ( /\ RowRead
          /\ title_column # 0
          /\ normalize_cell(last'.sanitized[title_column]) = <<>> )
        => /\ output' = output
           /\ stats'.total_rows = stats.total_rows
           /\ stats'.validation_failures = stats.validation_failures + 1
           /\ stats'.skipped_rows = stats.skipped_rows + 1
           /\ last'.calls = <<>>
           /\ LET first == last'.sanitized[1]
                  marked == last'.values[1]
              IN  /\ marked # <<>> /\ marked[1] = HASH
                  /\ (first # <<>> /\ first[1] = HASH) => marked = first
                  /\ ~(first # <<>> /\ first[1] = HASH) => marked = <<HASH>> \o first
           /\ \A k \in 2..Len(headers) : last'.values[k] = last'.sanitized[k] ]_vars

C3_Witness ==
    /\ last.outcome = "title"
    /\ last.sanitized # last.record
    /\ last.sanitized[1][1] = HASH
    /\ last.values[1] = last.sanitized[1]

\* C4: the seen-identifier set is exactly the set of normalized accessIdentifier
\* values of the rows written so far, and a row is treated as a duplicate only
\* when its identifier is that of a written row, never that of a skipped one.
C4_SeenIsWritten ==
    [][ /\ seen_access_identifiers' = WrittenIdentifiers(output')
        /\ (RowRead /\ last'.outcome = "duplicate") =>
              normalize_cell(last'.sanitized[AccessIdentifierColumn])
                  \in WrittenIdentifiers(output) ]_vars

C4_Witness ==
    /\ AccessIdentifierColumn # 0
    /\ last.outcome = "title"
    /\ Len(output) >= 1
    /\ AccessIdentifierValidator_validate(last.sanitized[AccessIdentifierColumn], <<>>)
    /\ normalize_cell(last.sanitized[AccessIdentifierColumn]) \notin seen_access_identifiers

\* C5: the modifiers of a row run in ascending order of their column names (the
\* built-ins as accessIdentifier, field_description, field_model, file,
\* parent_id), and the row shown to each call holds the results of the
\* modifiers that ran before it and the unmodified cells of the columns whose
\* modifiers run after it.
C5_OrderAndContext ==
    /\ BTreeKeys({"parent_id", "file", "field_model", "field_description", "accessIdentifier"})
          = <<"accessIdentifier", "field_description", "field_model", "file", "parent_id">>
    /\ \A i, j \in 1..Len(last.calls) :
          i < j => ~ColumnLess(last.calls[j].column, last.calls[i].column)
    /\ \A i \in 1..Len(last.calls) :
          \A c \in DOMAIN column_modifiers :
             LET k == header_map_get(c)
                 shown == last.calls[i].values
             IN  k # 0 =>
                   /\ \A j \in 1..(i - 1) :
                         (last.calls[j].column = c /\ last.calls[j].op = "modify")
                            => shown[k] = last.calls[j].result
                   /\ ColumnLess(last.calls[i].column, c) => shown[k] = last.sanitized[k]

C5_Witness ==
    /\ Len(last.calls) = 6
    /\ last.calls[3].column = "file"
    /\ last.calls[6].column = "parent_id"
    /\ last.calls[3].values[AccessIdentifierColumn] # last.sanitized[AccessIdentifierColumn]

\* C6 as stated: an empty title, a failed validation of any modifier column or a
\* duplicate accessIdentifier leaves the row unwritten, and the run goes on.
C6_EveryFailureSkips ==
    [][ ( /\ RowRead
          /\ \/ last'.outcome \in {"title", "duplicate"}
             \/ FailedValidations(last'.calls) # {} )
        => /\ output' = output
           /\ pc' = "reading" ]_vars

\* C6 as amended: an empty title, a failed validation of the accessIdentifier
\* column or a duplicate accessIdentifier leaves the row unwritten and counted
\* as skipped, and the run goes on with the next row.
C6_FatalFailureSkips ==
    [][ ( /\ RowRead
          /\ \/ title_column # 0 /\ normalize_cell(last'.sanitized[title_column]) = <<>>
             \/ last'.outcome = "duplicate"
             \/ \E i \in FailedValidations(last'.calls) :
                   last'.calls[i].column = "accessIdentifier" )
        => /\ output' = output
           /\ stats'.skipped_rows = stats.skipped_rows + 1
           /\ stats'.total_rows = stats.total_rows
           /\ pc' = "reading" ]_vars

C6_Witness ==
    /\ last.outcome = "invalid"
    /\ rows_read < MaxRows
    /\ pc = "reading"
    /\ \E i \in FailedValidations(last.calls) : last.calls[i].column = "accessIdentifier"

\* C7: a failed validation of a column other than accessIdentifier adds one to
\* validation_failures and does not invalidate the row: the modifiers after it
\* still run and the row is written.  Only a failed or duplicate accessIdentifier
\* ends the modifier pass, and the row is then skipped.
C7_OnlyIdentifierInvalidates ==
    [][ RowRead =>
          LET calls == last'.calls
              failed == FailedValidations(calls)
              gated == IF last'.outcome \in {"title", "duplicate"} THEN 1 ELSE 0
          IN  /\ stats'.validation_failures
                    = stats.validation_failures + Cardinality(failed) + gated
              /\ \A i \in failed :
                    calls[i].column # "accessIdentifier" =>
                       /\ last'.outcome = "written"
                       /\ output' = Append(output, last'.values)
                       /\ \A c \in DOMAIN column_modifiers :
                             (header_map_get(c) # 0 /\ ColumnLess(calls[i].column, c))
                                => \E j \in (i + 1)..Len(calls) : calls[j].column = c
              /\ last'.outcome = "invalid" <=>
                    \E i \in failed : calls[i].column = "accessIdentifier"
              /\ last'.outcome \in {"invalid", "duplicate"} =>
                    /\ calls[Len(calls)].column = "accessIdentifier"
                    /\ calls[Len(calls)].op = "validate"
                    /\ output' = output ]_vars

C7_Witness ==
    /\ last.outcome = "written"
    /\ \E i \in FailedValidations(last.calls) :
          /\ last.calls[i].column = "file"
          /\ \E j \in (i + 1)..Len(last.calls) :
                last.calls[j].column = "parent_id" /\ last.calls[j].op = "modify"

\* C8: sanitize_text_in_place applied to its own result leaves the value as it
\* is and reports no change.
C8_SanitizeIdempotent ==
    pc = "resanitized" => (txt.twice = txt.once /\ ~txt.changed_twice)

\* C9: in a written row no cell of a column other than field_description and
\* description (compared without case) contains a semicolon, and cells_modified
\* has grown by at least the number of semicolon-bearing cells of the columns
\* that no modifier rewrites.
IsDescriptionColumn(name) == name \in {"field_description", "description"}

C9_SemicolonsBecomePipes ==
    [][ (RowRead /\ last'.outcome = "written") =>
          LET plain == {k \in 1..Len(headers) : ~IsDescriptionColumn(headers[k])}
              rewritten == {k \in plain : headers[k] \notin DOMAIN column_modifiers
                                          /\ HasSemicolon(last'.sanitized[k])}
          IN  /\ \A k \in plain : ~HasSemicolon(output'[Len(output')][k])
              /\ stats'.cells_modified >= stats.cells_modified + Cardinality(rewritten) ]_vars

\* C10: the field_description cell of a written row is wrapped in double quotes
\* (two characters at least, the first and the last a quote; the empty cell
\* becomes two quotes), each of its semicolons follows a backslash, the quotes
\* inside a value that was not wrapped are doubled, a wrapped value is not
\* wrapped again, and the transformation changes nothing in its own result.
IsQuoteWrapped(value) ==
    Len(value) >= 2 /\ value[1] = QUOTE /\ value[Len(value)] = QUOTE

C10_DescriptionWrapped ==
    /\ pc \in {"described", "redescribed"} =>
          LET escaped == FieldDescriptionSemicolonEscaper_modify(txt.input)
          IN  /\ IsQuoteWrapped(txt.once)
              /\ txt.input = <<>> => txt.once = <<QUOTE, QUOTE>>
              /\ \A i \in 1..Len(txt.once) :
                    txt.once[i] = SEMICOLON => (i > 1 /\ txt.once[i - 1] = BACKSLASH)
              /\ IsQuoteWrapped(escaped) => txt.once = escaped
              /\ (escaped # <<>> /\ ~IsQuoteWrapped(escaped))
                    => txt.once = <<QUOTE>> \o DoubleQuotes(escaped) \o <<QUOTE>>
    /\ pc = "redescribed" => txt.twice = txt.once

(***************************************************************************)
(* Properties of the written header.                                       *)
(***************************************************************************)
FieldModelActive ==
    /\ "field_model" \in DOMAIN column_modifiers
    /\ column_modifiers["field_model"] = "FieldModelModifier"

\* C11: with a field_model modifier and no field_model column in the input
\* header, the written header is the input header with field_model appended
\* once at the end and every written row has the new width, its last cell the
\* modifier's result for the row; otherwise the written header is the input
\* header.
C11_FieldModelAppended ==
    IF pc \in {"reading", "done"} /\ FieldModelActive /\ header_map_get("field_model") = 0
    THEN /\ written_headers = Append(headers, "field_model")
         /\ \A i \in 1..Len(output) :
               /\ Len(output[i]) = Len(headers) + 1
               /\ output[i][Len(headers) + 1]
                     = FieldModelModifier_modify(<<>>, RowContext_new(headers, output[i]))
    ELSE written_headers = headers

(***************************************************************************)
(* Properties of the built-in modifiers within the processing pass.        *)
(***************************************************************************)
\* C12: the built-in validator rejects an accessIdentifier cell exactly when
\* its normalized value is empty or ends with _00 or _000; so in every written
\* row the accessIdentifier cell is non-empty, is its own normalized form
\* (trimmed, not the placeholder) and ends with neither _00 nor _000.
C12_IdentifierValidated ==
    [][ (RowRead /\ ValidatorActive) =>
          /\ \A i \in 1..Len(last'.calls) :
                (last'.calls[i].column = "accessIdentifier" /\ last'.calls[i].op = "validate")
                => LET clean == normalize_cell(last'.calls[i].values[AccessIdentifierColumn])
                   IN  ~last'.calls[i].ok <=>
                          \/ clean = <<>>
                          \/ EndsWith(clean, SUFFIX_00)
                          \/ EndsWith(clean, SUFFIX_000)
          /\ \A r \in 1..Len(output') :
                LET cell == output'[r][AccessIdentifierColumn]
                IN  /\ cell # <<>>
                    /\ cell = Trim(cell)
                    /\ ~EqIgnoreAsciiCase(cell, VALUE_PLACEHOLDER)
                    /\ cell = normalize_cell(cell)
                    /\ ~EndsWith(cell, SUFFIX_00)
                    /\ ~EndsWith(cell, SUFFIX_000) ]_vars

C12_Witness ==
    /\ ValidatorActive
    /\ last.outcome = "invalid"
    /\ EndsWith(last.sanitized[AccessIdentifierColumn], SUFFIX_000)
    /\ Len(output) = 2
    /\ output[1][AccessIdentifierColumn] = <<65, 95, 48, 48, 49>>

ParentIdColumn == header_map_get("parent_id")

ParentIdActive ==
    /\ ParentIdColumn # 0
    /\ AccessIdentifierColumn # 0
    /\ "parent_id" \in DOMAIN column_modifiers
    /\ column_modifiers["parent_id"] = "ParentIdModifier"

\* prefix is text cut before its last ch, or the whole text when it has none
IsCutBeforeLast(prefix, text, ch) ==
    IF \E k \in 1..Len(text) : text[k] = ch
    THEN \E k \in 1..Len(text) :
            /\ text[k] = ch
            /\ \A j \in (k + 1)..Len(text) : text[j] # ch
            /\ prefix = SubSeq(text, 1, k - 1)
    ELSE prefix = text

IsCutBeforeLastUnderscore(prefix, identifier) == IsCutBeforeLast(prefix, identifier, UNDERSCORE)

\* C13: every modify call of the parent_id modifier returns the normalized
\* accessIdentifier of the row it is shown, cut before its last underscore,
\* whatever the parent_id cell holds; so in every written row the parent_id
\* cell is that prefix of the row's accessIdentifier.
C13_ParentIsPrefix ==
    [][ (RowRead /\ ParentIdActive) =>
          /\ \A i \in 1..Len(last'.calls) :
                (last'.calls[i].column = "parent_id" /\ last'.calls[i].op = "modify")
                => IsCutBeforeLastUnderscore(
                      last'.calls[i].result,
                      normalize_cell(last'.calls[i].values[AccessIdentifierColumn]))
          /\ \A r \in 1..Len(output') :
                IsCutBeforeLastUnderscore(output'[r][ParentIdColumn],
                                          output'[r][AccessIdentifierColumn]) ]_vars

C13_Witness ==
    /\ ParentIdActive
    /\ Len(output) = 2
    /\ output[1][AccessIdentifierColumn] = <<65, 66>>
    /\ output[1][ParentIdColumn] = <<65, 66>>
    /\ last.outcome = "written"
    /\ last.sanitized[ParentIdColumn] = <<80>>
    /\ last.sanitized[AccessIdentifierColumn] = <<65, 95, 48, 48, 49>>
    /\ last.values[ParentIdColumn] = <<65>>

\* the normalized cell of the named column of a row, empty when the header
\* row has no such column
NormalizedCell(hdrs, row, name) ==
    IF \E i \in 1..Len(hdrs) : hdrs[i] = name
    THEN normalize_cell(row[CHOOSE i \in 1..Len(hdrs) : hdrs[i] = name])
    ELSE <<>>

\* C14: the file modifier's validate holds iff the normalized file cell, the
\* extension and the accessIdentifier are all non-empty, the extension being
\* file_extension when that is non-empty and file_extention otherwise; modify
\* then returns parent/base.ext, parent the accessIdentifier before its last
\* underscore and base the normalized cell before its last dot.
C14_FilePath ==
    pc = "filed" =>
       LET file == NormalizedCell(headers, last.record, "file")
           extension == NormalizedCell(headers, last.record, "file_extension")
           extention == NormalizedCell(headers, last.record, "file_extention")
           ext == IF extension # <<>> THEN extension ELSE extention
           identifier == NormalizedCell(headers, last.record, "accessIdentifier")
           valid == last.calls[1].ok
           result == last.calls[2].result
       IN  /\ valid <=> (file # <<>> /\ ext # <<>> /\ identifier # <<>>)
           /\ valid =>
                 \E a \in 0..Len(identifier), b \in 0..Len(file) :
                    /\ IsCutBeforeLast(SubSeq(identifier, 1, a), identifier, UNDERSCORE)
                    /\ IsCutBeforeLast(SubSeq(file, 1, b), file, DOT)
                    /\ result = SubSeq(identifier, 1, a) \o <<SLASH>>
                                   \o SubSeq(file, 1, b) \o <<DOT>> \o ext

\* A_B_1, f.o, no file_extension, file_extention y: A_B/f.y
C14_Witness ==
    /\ pc = "filed"
    /\ last.calls[1].ok
    /\ NormalizedCell(headers, last.record, "file_extension") = <<>>
    /\ NormalizedCell(headers, last.record, "file") = <<102, 46, 111>>
    /\ last.calls[2].result = <<65, 95, 66, 47, 102, 46, 121>>

\* the failures of the row just read: its failed validations, and one more
\* when the title gate or the duplicate test rejected it
FailuresOfRow(row) ==
    Cardinality(FailedValidations(row.calls))
        + (IF row.outcome \in {"title", "duplicate"} THEN 1 ELSE 0)

\* C20: over one pass, all failure kinds counted together, the first 25
\* failures each log a detailed diagnostic, the 26th logs the suppression
\* notice, the notice is logged once, later failures log nothing, and
\* validation_failures grows by one with every failure.
C20_LogCap ==
    [][ RowRead =>
          /\ stats'.validation_failures = stats.validation_failures + FailuresOfRow(last')
          /\ logs'.detail = IF stats'.validation_failures <= 25
                            THEN stats'.validation_failures ELSE 25
          /\ logs'.notice = IF stats'.validation_failures >= 26 THEN 1 ELSE 0
          /\ (stats'.validation_failures > stats.validation_failures
                /\ stats.validation_failures >= 26)
                => logs' = logs ]_vars

C20_Witness ==
    /\ stats.validation_failures = 27
    /\ logs.detail = 25
    /\ logs.notice = 1
    /\ last.outcome = "duplicate"
    /\ stats.total_rows = 1

(***************************************************************************)
(* Properties of ItemCsvGenerator::generate.                               *)
(***************************************************************************)
\* the normalized parent_id and fileTitle of a row read by generate
ItemParent(row) == normalize_cell(row[Position(headers, "parent_id")])

ItemTitle(row) == normalize_cell(row[Position(headers, "fileTitle")])

\* the parent_id cell is empty or the #VALUE! placeholder
HasNoParent(row) ==
    LET cell == Trim(row[Position(headers, "parent_id")])
    IN  cell = <<>> \/ EqIgnoreAsciiCase(cell, VALUE_PLACEHOLDER)

RowsOfGroup(rows, key) == {i \in 1..Len(rows) : ~HasNoParent(rows[i]) /\ ItemParent(rows[i]) = key}

ParentKeys(rows) == {ItemParent(rows[i]) : i \in {j \in 1..Len(rows) : ~HasNoParent(rows[j])}}

RECURSIVE CountSum(_)
CountSum(groups) ==
    IF DOMAIN groups = {} THEN 0
    ELSE LET k == CHOOSE key \in DOMAIN groups : TRUE
         IN  groups[k].count + CountSum([key \in DOMAIN groups \ {k} |-> groups[key]])

\* C15: total_items is the number of rows read, skipped_rows the number of
\* rows without a parent; every other row adds one to the count of the one
\* group of its normalized parent_id and a skipped row changes no group; so
\* total_items = skipped_rows + the sum of the group counts, and
\* unique_parents is the number of groups.
C15_ItemAccounting ==
    [][ /\ item_stats'.total_items = Len(items')
        /\ item_stats'.skipped_rows
              = Cardinality({i \in 1..Len(items') : HasNoParent(items'[i])})
        /\ DOMAIN parent_data' = ParentKeys(items')
        /\ \A k \in DOMAIN parent_data' :
              parent_data'[k].count = Cardinality(RowsOfGroup(items', k))
        /\ item_stats'.total_items = item_stats'.skipped_rows + CountSum(parent_data')
        /\ pc' = "generated" => item_stats'.unique_parents = Cardinality(DOMAIN parent_data')
        /\ items' # items =>
              LET row == items'[Len(items')]
              IN  IF HasNoParent(row) THEN parent_data' = parent_data
                  ELSE \E k \in DOMAIN parent_data' :
                          /\ k = ItemParent(row)
                          /\ parent_data'[k].count
                                = (IF k \in DOMAIN parent_data THEN parent_data[k].count
                                   ELSE 0) + 1
                          /\ \A o \in DOMAIN parent_data' \ {k} :
                                o \in DOMAIN parent_data
                                /\ parent_data'[o] = parent_data[o] ]_vars

C15_Witness ==
    /\ pc = "generated"
    /\ item_stats.total_items = 3
    /\ item_stats.skipped_rows = 1
    /\ item_stats.unique_parents = 2
    /\ items[2][Position(headers, "parent_id")] = <<35, 86, 65, 76, 85, 69, 33>>

\* C16: generate ends with an error exactly when the header lacks parent_id
\* or fileTitle (a missing field_date is no error), and then no row was read
\* and the output file was neither created nor written.
C16_MissingColumnFails ==
    /\ pc \in {"failed", "grouping", "generated"} =>
          (pc = "failed" <=>
              \/ ~\E i \in 1..Len(headers) : headers[i] = "parent_id"
              \/ ~\E i \in 1..Len(headers) : headers[i] = "fileTitle")
    /\ pc = "failed" =>
          /\ items = <<>>
          /\ item_stats = ItemGenerationStats_default
          /\ ~items_file_created
          /\ written_headers = <<>>
          /\ output = <<>>

C16_Witness ==
    /\ pc = "failed"
    /\ headers = <<"parent_id", "field_date">>

\* the four digits of a year
YearDigits(y) ==
    <<48 + (y \div 1000), 48 + ((y \div 100) % 10), 48 + ((y \div 10) % 10), 48 + (y % 10)>>

\* C17: the field_date of a summary row is empty when its group has no date
\* sample; MM/YYYY of a (year, month) pair counted in more than half of the
\* samples (year-only samples included in the total); otherwise the
\* count-weighted mean of the sample years rounded to the nearest integer,
\* a half rounded up.
C17_FieldDate ==
    pc = "generated" =>
       \A r \in 1..Len(output) :
          LET group == parent_data[output[r][1]]
              date == output[r][5]
              total == group.total_date_samples
              pairs == DOMAIN group.year_month_counts
              sum == YearSum(group.year_counts)
          IN  /\ total = YearTotal(group.year_counts)
              /\ total = 0 => date = <<>>
              /\ \A p \in pairs :
                    2 * group.year_month_counts[p] > total
                    => date = <<48 + (p[2] \div 10), 48 + (p[2] % 10), SLASH>>
                                 \o YearDigits(p[1])
              /\ (total > 0 /\ \A p \in pairs : 2 * group.year_month_counts[p] <= total)
                    => \E year \in 1000..2999 :
                          /\ 2 * total * year <= 2 * sum + total
                          /\ 2 * sum + total < 2 * total * (year + 1)
                          /\ date = YearDigits(year)

\* one sample 2023 and one sample 05/2024: 2024
C17_Witness ==
    /\ pc = "generated"
    /\ Len(output) = 1
    /\ parent_data[output[1][1]].total_date_samples = 2
    /\ parent_data[output[1][1]].year_counts = [y \in {2023, 2024} |-> 1]
    /\ DOMAIN parent_data[output[1][1]].year_month_counts = {<<2024, 5>>}
    /\ output[1][5] = <<50, 48, 50, 52>>

\* C18: the summary has one row per distinct normalized non-empty parent_id of
\* the input, in strictly ascending order of the keys whatever the order of
\* the input rows, and every row carries the node value in field_member_of,
\* the empty string when no node was given.
C18_SortedSummary ==
    pc = "generated" =>
       /\ Len(output) = Cardinality(ParentKeys(items))
       /\ {output[r][1] : r \in 1..Len(output)} = ParentKeys(items)
       /\ \A r \in 1..(Len(output) - 1) : KeyLess(output[r][1], output[r + 1][1])
       /\ \A r \in 1..Len(output) :
             output[r][4] = IF node.some THEN node.value ELSE <<>>

C18_Witness ==
    /\ pc = "generated"
    /\ node = Some(<<55>>)
    /\ Len(items) >= 2
    /\ ItemParent(items[1]) = <<66>>
    /\ ItemParent(items[2]) = <<65>>
    /\ Len(output) = 2
    /\ output[1][1] = <<65>>
    /\ output[2][4] = <<55>>

\* the normalized fileTitle of the first row of the group that has one
FirstTitle(rows, key) ==
    LET titled == {i \in RowsOfGroup(rows, key) : ItemTitle(rows[i]) # <<>>}
    IN  IF titled = {} THEN <<>>
        ELSE ItemTitle(rows[CHOOSE i \in titled : \A j \in titled : i <= j])

\* C19: the title of a group is the normalized fileTitle of its first row, in
\* input order, that has a non-empty one; once set it is never changed; it is
\* empty iff no row of the group has a title.
C19_FirstTitleWins ==
    [][ /\ \A k \in DOMAIN parent_data' : parent_data'[k].title = FirstTitle(items', k)
        /\ \A k \in DOMAIN parent_data :
              parent_data[k].title # <<>> =>
                 (k \in DOMAIN parent_data' /\ parent_data'[k].title = parent_data[k].title)
        /\ pc' = "generated" =>
              \A r \in 1..Len(output') : output'[r][2] = FirstTitle(items', output'[r][1]) ]_vars

C19_Witness ==
    /\ pc = "grouping"
    /\ Len(items) = 3
    /\ \A i \in 1..3 : ItemParent(items[i]) = <<66>>
    /\ ItemTitle(items[1]) = <<>>
    /\ ItemTitle(items[2]) = <<84>>
    /\ ItemTitle(items[3]) = <<85>>
    /\ parent_data[<<66>>].title = <<84>>

C22_ShortRowsPadded ==
    [][(last' # last /\ Len(last'.record) < Len(headers)) =>
          /\ pc' = "reading"
          /\ last'.outcome \in {"written", "title", "invalid", "duplicate"}
          /\ Len(last'.sanitized) = Len(headers)
          /\ \A k \in (Len(last'.record) + 1)..Len(headers) : last'.sanitized[k] = <<>>
          /\ last'.outcome = "written" =>
                /\ Len(output'[Len(output')]) = Len(written_headers)
                /\ \A c \in DOMAIN column_modifiers :
                      header_map_get(c) # 0 =>
                         \E i \in 1..Len(last'.calls) : last'.calls[i].column = c]_vars

(***************************************************************************)
(* Properties of the date heuristics.                                      *)
(***************************************************************************)
ParsedText == as_bytes(Trim(last.record[1]))

\* the offsets (from 0) at which a run of exactly four digits starts
FourDigitRuns(bytes) ==
    {i \in 0..(Len(bytes) - 4) :
        /\ AllDigits(SubSeq(bytes, i + 1, i + 4))
        /\ i = 0 \/ ~is_ascii_digit(bytes[i])
        /\ i + 4 = Len(bytes) \/ ~is_ascii_digit(bytes[i + 5])}

\* those of them that read as a year
YearRuns(bytes) ==
    {i \in FourDigitRuns(bytes) : ParseDigits(SubSeq(bytes, i + 1, i + 4)) \in 1000..2999}

Leftmost(offsets) == CHOOSE i \in offsets : \A j \in offsets : i <= j

\* C23: the year is the leftmost run of exactly four ASCII digits with a value
\* in 1000..2999; digits inside a longer run of digits are never the year, and
\* there is a result exactly when there is such a run.
C23_YearIsFourDigitRun ==
    pc = "parsed" =>
       /\ last.calls[1].ok <=> YearRuns(ParsedText) # {}
       /\ last.calls[1].ok =>
             last.calls[1].result.year =
                ParseDigits(SubSeq(ParsedText, Leftmost(YearRuns(ParsedText)) + 1,
                                   Leftmost(YearRuns(ParsedText)) + 4))

\* the number of one or two digits that starts at offset i (from 0) and ends
\* before offset j, with a value in 1..12
MonthAt(bytes, i, j) ==
    IF /\ 0 <= i /\ i < j /\ j <= Len(bytes) /\ j - i <= 2
       /\ AllDigits(SubSeq(bytes, i + 1, j))
       /\ ParseDigits(SubSeq(bytes, i + 1, j)) \in 1..12
    THEN Some(ParseDigits(SubSeq(bytes, i + 1, j)))
    ELSE None

\* the month that directly follows the year at offset y and one delimiter
MonthFollowing(bytes, y) ==
    IF y + 5 <= Len(bytes) /\ bytes[y + 5] \in {HYPHEN, SLASH}
    THEN IF MonthAt(bytes, y + 5, y + 7).some THEN MonthAt(bytes, y + 5, y + 7)
         ELSE MonthAt(bytes, y + 5, y + 6)
    ELSE None

\* the month that directly precedes one delimiter and the year at offset y
MonthPreceding(bytes, y) ==
    IF y >= 2 /\ bytes[y] \in {HYPHEN, SLASH}
    THEN IF MonthAt(bytes, y - 3, y - 1).some THEN MonthAt(bytes, y - 3, y - 1)
         ELSE MonthAt(bytes, y - 2, y - 1)
    ELSE None

\* C24: with the year the scan found, the month is the number of one or two
\* digits and value 1..12 right after the year and one '-' or '/', also when
\* more text follows it; failing that, the one right before the year and one
\* '-' or '/'; failing that, there is no month.  Two digits are tried before
\* one on either side.
C24_AdjacentMonth ==
    (pc = "parsed" /\ last.calls[1].ok) =>
       LET y == FindYear(ParsedText, 0).value.y_idx
           expected == IF MonthFollowing(ParsedText, y).some
                       THEN MonthFollowing(ParsedText, y)
                       ELSE MonthPreceding(ParsedText, y)
       IN  /\ last.calls[1].result.month.some = expected.some
           /\ expected.some => last.calls[1].result.month.value = expected.value

\* the normalized field_date cell of a row, empty without the column
ItemFieldDate(row) ==
    IF Position(headers, "field_date") = 0 THEN <<>>
    ELSE normalize_cell(row[Position(headers, "field_date")])

\* the date sample of a row: from field_date when it has a value, from the
\* title only when it has none
RowSample(row) ==
    parse_year_and_month(IF ItemFieldDate(row) # <<>> THEN ItemFieldDate(row)
                         ELSE ItemTitle(row))

CountOf(counts, key) == IF key \in DOMAIN counts THEN counts[key] ELSE 0

\* the counts differ by `by` at key and nowhere else
CountsStep(before, after, key, by) ==
    /\ DOMAIN after = DOMAIN before \cup (IF by > 0 THEN {key} ELSE {})
    /\ \A k \in DOMAIN after :
          after[k] = CountOf(before, k) + (IF k = key THEN by ELSE 0)

\* C25: a grouped row adds at most one date sample to its group: the date of
\* its normalized field_date when that cell has a value, the date of its
\* fileTitle only when field_date is absent or empty; a field_date without a
\* year adds nothing and the title is not looked at.  A sample adds one to
\* total_date_samples and to its year's count, and one to its (year, month)
\* count exactly when it has a month.  In every group total_date_samples is
\* the sum of the year counts, at least the sum of the (year, month) counts
\* and at most the item count.
C25_OneSamplePerRow ==
    [][ /\ \A k \in DOMAIN parent_data' :
              /\ parent_data'[k].total_date_samples = YearTotal(parent_data'[k].year_counts)
              /\ parent_data'[k].total_date_samples >=
                    YearTotal(parent_data'[k].year_month_counts)
              /\ parent_data'[k].total_date_samples <= parent_data'[k].count
        /\ (Len(items') = Len(items) + 1 /\ ~HasNoParent(items'[Len(items')])) =>
              LET row == items'[Len(items')]
                  key == ItemParent(row)
                  before == IF key \in DOMAIN parent_data THEN parent_data[key]
                            ELSE GroupData_default
                  after == parent_data'[key]
                  sample == RowSample(row)
              IN  IF ~sample.some
                  THEN /\ after.total_date_samples = before.total_date_samples
                       /\ after.year_counts = before.year_counts
                       /\ after.year_month_counts = before.year_month_counts
                  ELSE /\ after.total_date_samples = before.total_date_samples + 1
                       /\ CountsStep(before.year_counts, after.year_counts,
                                     sample.value.year, 1)
                       /\ IF sample.value.month.some
                          THEN CountsStep(before.year_month_counts, after.year_month_counts,
                                          <<sample.value.year, sample.value.month.value>>, 1)
                          ELSE after.year_month_counts = before.year_month_counts ]_vars

\* a row with an undated field_date and a dated title has added nothing, and
\* a row without field_date value has added the date of its title
C25_Witness ==
    /\ pc = "grouping"
    /\ Len(items) = 2
    /\ Position(headers, "field_date") # 0
    /\ ItemFieldDate(items[1]) = <<120>> /\ RowSample(items[1]) = None
    /\ parse_year_and_month(ItemTitle(items[1])).some
    /\ ItemFieldDate(items[2]) = <<>> /\ RowSample(items[2]).some
    /\ \E k \in DOMAIN parent_data :
          /\ parent_data[k].count = 2
          /\ parent_data[k].total_date_samples = 1
          /\ DOMAIN parent_data[k].year_counts = {2022}

\* the cells of the row of this step that sanitization changed
SanitizedCells ==
    {i \in 1..Len(last'.record) : last'.sanitized[i] # last'.record[i]}

\* the calls of the row of this step in which modify replaced the cell
ModifiedCalls ==
    {i \in 1..Len(last'.calls) :
        /\ last'.calls[i].op = "modify"
        /\ last'.calls[i].result # last'.calls[i].values[header_map_get(last'.calls[i].column)]}

\* the failed validations of the row of this step that cleared the cell
ClearingCalls ==
    {i \in FailedValidations(last'.calls) :
        ClearsCell(last'.calls[i].column,
                   last'.calls[i].values[header_map_get(last'.calls[i].column)])}

\* C26: a row adds to cells_modified the number of its cells that sanitization
\* changed, every changed cell counted; a row skipped at the title gate or for
\* its identifier adds exactly that number, and a row that reaches the
\* modifiers adds to it one for every cell a modifier replaced, cleared or
\* wrapped.
C26_SanitizedCellsCounted ==
    [][ RowRead =>
          /\ stats'.cells_modified >= stats.cells_modified + Cardinality(SanitizedCells)
          /\ last'.outcome = "title" =>
                stats'.cells_modified = stats.cells_modified + Cardinality(SanitizedCells)
          /\ last'.outcome # "title" =>
                \E wrapped \in {0, 1} :
                   /\ wrapped = 1 =>
                         /\ last'.outcome = "written"
                         /\ field_description_column # 0
                   /\ stats'.cells_modified =
                         stats.cells_modified + Cardinality(SanitizedCells)
                           + Cardinality(ModifiedCalls) + Cardinality(ClearingCalls)
                           + wrapped ]_vars

\* a row with two cells changed by sanitization was skipped for its title
C26_Witness ==
    /\ last.outcome = "title"
    /\ Cardinality({i \in 1..Len(last.record) : last.sanitized[i] # last.record[i]}) = 2
    /\ stats.cells_modified >= 2

\* the column of call i of the row of this step, and the cell it was given
CallColumn(i) == header_map_get(last'.calls[i].column)

CallCell(i) == last'.calls[i].values[CallColumn(i)]

\* the row as the next call saw it, or as the loop left it after the last call
RowAfterCall(i) ==
    IF i < Len(last'.calls) THEN last'.calls[i + 1].values ELSE last'.values

\* a placeholder in the parent_id or file column: not blank, normalized to nothing
IsPlaceholderCell(i) ==
    /\ last'.calls[i].column \in {"parent_id", "file"}
    /\ Trim(CallCell(i)) # <<>>
    /\ normalize_cell(CallCell(i)) = <<>>

IsPlaceholder(cell) == EqIgnoreAsciiCase(Trim(cell), VALUE_PLACEHOLDER)

\* C27: a failed validation leaves the row as it was, except that a
\* placeholder cell of the parent_id or file column is emptied, which counts
\* as one modified cell; no other failed validation changes a cell or
\* cells_modified.  So no written row has the placeholder in a file or
\* parent_id column whose modifier is registered.
C27_FailureClearsPlaceholder ==
    [][ RowRead =>
          /\ \A i \in FailedValidations(last'.calls) :
                \A k \in 1..Len(last'.calls[i].values) :
                   (i = Len(last'.calls) /\ k = field_description_column)
                   \/ RowAfterCall(i)[k] =
                         IF k = CallColumn(i) /\ IsPlaceholderCell(i) THEN <<>>
                         ELSE last'.calls[i].values[k]
          /\ last'.outcome # "title" =>
                \E wrapped \in {0, 1} :
                   /\ wrapped = 1 =>
                         /\ last'.outcome = "written"
                         /\ field_description_column # 0
                   /\ stats'.cells_modified =
                         stats.cells_modified + Cardinality(SanitizedCells)
                           + Cardinality(ModifiedCalls) + wrapped
                           + Cardinality({i \in FailedValidations(last'.calls) :
                                            IsPlaceholderCell(i)})
          /\ \A r \in 1..Len(output') :
                \A c \in {"file", "parent_id"} \cap DOMAIN column_modifiers :
                   header_map_get(c) # 0 => ~IsPlaceholder(output'[r][header_map_get(c)]) ]_vars

\* a row with the placeholder in both columns was written with both emptied,
\* and a row whose file cell failed validation with a plain value kept it
C27_Witness ==
    /\ last.outcome = "written"
    /\ headers = <<"file", "parent_id">>
    /\ IsPlaceholder(last.record[1]) /\ IsPlaceholder(last.record[2])
    /\ last.values = <<<<>>, <<>>>>
    /\ stats.cells_modified >= 2
    /\ \E r \in 1..Len(output) : output[r][1] = <<102>> /\ output[r][2] = <<>>

\* the rows of a group that gave a date sample
DatedRows(key) == {i \in RowsOfGroup(items, key) : RowSample(items[i]).some}

\* the date samples of a group counted without regard to the order of the rows
SampleTally(key) ==
    LET sample == [i \in RowsOfGroup(items, key) |-> RowSample(items[i])]
        dated == {i \in DOMAIN sample : sample[i].some}
        years == {sample[i].value.year : i \in dated}
        pairs == {<<sample[i].value.year, sample[i].value.month.value>> :
                    i \in {j \in dated : sample[j].value.month.some}}
    IN  [total_date_samples |-> Cardinality(dated),
         year_counts |->
             [y \in years |-> Cardinality({i \in dated : sample[i].value.year = y})],
         year_month_counts |->
             [p \in pairs |->
                 Cardinality({i \in dated : /\ sample[i].value.year = p[1]
                                             /\ sample[i].value.month = Some(p[2])})]]

\* C28: the field_date written for a group is the same for every pair of
\* greatest count the map's iteration order can yield, and is determined by
\* the date samples of the group's rows counted without regard to their order.
C28_DateOfSamplesOnly ==
    pc = "generated" =>
       \A r \in 1..Len(output) :
          \A tally \in {SampleTally(output[r][1])} :
             \A dominant \in MaxPairs(tally.year_month_counts) :
                output[r][5] = FieldDate(tally, dominant)

\* two (year, month) pairs tie for the greatest count and the year was written
C28_Witness ==
    /\ pc = "generated"
    /\ Len(output) = 1
    /\ Cardinality(MaxPairs(parent_data[output[1][1]].year_month_counts)) = 2
    /\ parent_data[output[1][1]].total_date_samples = 2
    /\ output[1][5] = <<50, 48, 50, 52>>

\* C29: skipped_rows never exceeds validation_failures; a step that skips a
\* row, at the title gate, for a duplicate or for an invalid identifier, adds
\* one to both in that step; total_rows, skipped_rows, validation_failures and
\* cells_modified never go down.
C29_SkipsAreFailures ==
    [][ /\ stats.skipped_rows <= stats.validation_failures
        /\ stats'.skipped_rows <= stats'.validation_failures
        /\ stats'.skipped_rows \in {stats.skipped_rows, stats.skipped_rows + 1}
        /\ stats'.skipped_rows = stats.skipped_rows + 1 <=>
              (RowRead /\ last'.outcome \in {"title", "duplicate", "invalid"})
        /\ stats'.skipped_rows = stats.skipped_rows + 1 =>
              stats'.validation_failures >= stats.validation_failures + 1
        /\ stats'.total_rows >= stats.total_rows
        /\ stats'.validation_failures >= stats.validation_failures
        /\ stats'.cells_modified >= stats.cells_modified ]_vars

\* a duplicate was skipped after another row had been skipped, and a failure
\* that skipped nothing has been counted too
C29_Witness ==
    /\ last.outcome = "duplicate"
    /\ stats.skipped_rows = 2
    /\ stats.validation_failures > stats.skipped_rows

\* the file modifier is registered for a column the header has
FileActive ==
    /\ header_map_get("file") # 0
    /\ "file" \in DOMAIN column_modifiers
    /\ column_modifiers["file"] = "FileExtensionModifier"

\* C30: in a written row whose file cell passed validation, with the file and
\* parent_id modifiers registered and their columns in the header, the file
\* cell starts with the final parent_id cell and a '/'.
C30_FileUnderParent ==
    [][ ( /\ RowRead
          /\ last'.outcome = "written"
          /\ FileActive
          /\ ParentIdActive
          /\ \E i \in 1..Len(last'.calls) :
                /\ last'.calls[i].column = "file"
                /\ last'.calls[i].op = "validate"
                /\ last'.calls[i].ok ) =>
        LET row == output'[Len(output')]
        IN  StartsWith(row[header_map_get("file")],
                       row[ParentIdColumn] \o <<SLASH>>) ]_vars

\* a written row whose parent_id cell was rewritten after the file cell was
\* built, from an identifier the identifier modifier had normalized
C30_Witness ==
    /\ last.outcome = "written"
    /\ FileActive
    /\ ParentIdActive
    /\ last.record[AccessIdentifierColumn] = <<32, 65, 95, 49>>
    /\ last.record[ParentIdColumn] = <<80>>
    /\ last.values[ParentIdColumn] = <<65>>
    /\ last.values[header_map_get("file")] = <<65, SLASH, 102, DOT, 120>>

====

